---- MODULE Spec2Model ----
(***************************************************************************)
(* STRling (Rust binding): parser -> AST -> compiler (lower, normalize,    *)
(* analyze_features) -> IR.  Strings are sequences of one-character        *)
(* strings; Option<T> is a sequence of length 0 (None) or 1 (Some).        *)
(***************************************************************************)
EXTENDS Integers, Sequences, FiniteSets, TLC

(***************************************************************************)
(* Bounds of the model                                                     *)
(***************************************************************************)
\* largest number of nodes of an IR tree handed to normalize
MaxIRNodes == 4
\* largest number of nodes of an AST of plain variants handed to a fresh Compiler
MaxASTNodes == 4
\* largest number of nodes of an AST of feature variants handed to a fresh Compiler
MaxFeatureNodes == 3
\* largest number of nodes of an AST handed to a Compiler that is used again
MaxReuseNodes == 2
\* largest number of one-char tokens of a pattern text handed to parse
MaxToks == 4
\* largest number of tokens of a pattern text built from the group and quantifier forms
MaxFormToks == 2
\* largest number of chars of the text of an error handed to the renderings
MaxErrorText == 4
\* largest number of chars after "%flags" on a directive line
MaxFlagChars == 2
\* largest number of chars of the pattern body under a directive line
MaxBodyChars == 3
\* largest number of tokens of a pattern text of named groups
MaxNameToks == 4
\* largest min and largest finite max of a Quant handed to the emitter
MaxRepeat == 3
\* the most tokens of a pattern text handed to the whole pipeline
MaxPipeToks == 3
\* the most nodes of an AST built by hand and handed to compile and emit
MaxBuiltNodes == 3
\* the most chars of a pattern body of whitespace, comments and classes
MaxSpacingChars == 5
\* the most tokens of a pattern text whose loops are followed turn by turn
MaxLoopToks == 3
\* the most chars of a literal that is emitted and parsed again
MaxLitChars == 3

None == <<>>
Some(v) == <<v>>
is_some(o) == Len(o) = 1
is_none(o) == Len(o) = 0

(***************************************************************************)
(* core/ir.rs: the IR operation tree                                       *)
(***************************************************************************)
IRLit(value) == [ir |-> "Lit", value |-> value]
IRDot == [ir |-> "Dot"]
IRAnchor(at) == [ir |-> "Anchor", at |-> at]
IRSeq(parts) == [ir |-> "Seq", parts |-> parts]
IRAlt(branches) == [ir |-> "Alt", branches |-> branches]
IRCharClass(negated, items) == [ir |-> "CharClass", negated |-> negated, items |-> items]
IRQuant(child, min, max, mode) ==
    [ir |-> "Quant", child |-> child, min |-> min, max |-> max, mode |-> mode]
IRGroup(capturing, name, atomic, body) ==
    [ir |-> "Group", capturing |-> capturing, name |-> name, atomic |-> atomic, body |-> body]
IRBackref(by_index, by_name) == [ir |-> "Backref", by_index |-> by_index, by_name |-> by_name]
IRLook(dir, neg, body) == [ir |-> "Look", dir |-> dir, neg |-> neg, body |-> body]

IRClassChar(ch) == [ir |-> "Char", ch |-> ch]
IRClassRange(from_ch, to_ch) == [ir |-> "Range", from_ch |-> from_ch, to_ch |-> to_ch]
IRClassEsc(escape_type, property) ==
    [ir |-> "Esc", escape_type |-> escape_type, property |-> property]

\* IRMaxBound: Finite(n) | Infinite("Inf")
IRFinite(n) == [kind |-> "Finite", n |-> n]
IRInfinite == [kind |-> "Infinite", n |-> 0]

(***************************************************************************)
(* core/compiler.rs: Compiler::normalize                                   *)
(***************************************************************************)
RECURSIVE normalize(_)

\* the first loop of the Seq arm: normalize each part, splice a part that is
\* a Seq after normalization, push any other part
\* (a variant that splices the parts as given, without normalizing them first)
RECURSIVE FlattenParts_raw(_)
FlattenParts_raw(parts) ==
    IF parts = <<>> THEN <<>>
    ELSE IF Head(parts).ir = "Seq"
         THEN Head(parts).parts \o FlattenParts_raw(Tail(parts))
         ELSE <<Head(parts)>> \o FlattenParts_raw(Tail(parts))

RECURSIVE FlattenParts(_)
FlattenParts(parts) ==
    IF parts = <<>> THEN <<>>
    ELSE LET normalized == normalize(Head(parts))
         IN  IF normalized.ir = "Seq"
             THEN normalized.parts \o FlattenParts(Tail(parts))
             ELSE <<normalized>> \o FlattenParts(Tail(parts))

\* the second loop of the Seq arm, from part k on, with the literal buffer
\* pending_lit and the parts pushed so far, and the flush after the loop
\* (a variant that puts each literal in front of the buffer)
RECURSIVE CoalesceFrom_reversed(_, _, _, _)
CoalesceFrom_reversed(new_parts, k, pending_lit, coalesced) ==
    IF k > Len(new_parts)
    THEN IF pending_lit # <<>> THEN Append(coalesced, IRLit(pending_lit)) ELSE coalesced
    ELSE LET part == new_parts[k]
         IN  IF part.ir = "Lit"
             THEN CoalesceFrom_reversed(new_parts, k + 1, part.value \o pending_lit, coalesced)
             ELSE IF pending_lit # <<>>
                  THEN CoalesceFrom_reversed(new_parts, k + 1, <<>>,
                                    Append(Append(coalesced, IRLit(pending_lit)), part))
                  ELSE CoalesceFrom_reversed(new_parts, k + 1, <<>>, Append(coalesced, part))

RECURSIVE CoalesceFrom(_, _, _, _)
CoalesceFrom(new_parts, k, pending_lit, coalesced) ==
    IF k > Len(new_parts)
    THEN IF pending_lit # <<>> THEN Append(coalesced, IRLit(pending_lit)) ELSE coalesced
    ELSE LET part == new_parts[k]
         IN  IF part.ir = "Lit"
             THEN CoalesceFrom(new_parts, k + 1, pending_lit \o part.value, coalesced)
             ELSE IF pending_lit # <<>>
                  THEN CoalesceFrom(new_parts, k + 1, <<>>,
                                    Append(Append(coalesced, IRLit(pending_lit)), part))
                  ELSE CoalesceFrom(new_parts, k + 1, <<>>, Append(coalesced, part))

\* (a variant that leaves the literals as they are)
Coalesce_noMerge(new_parts) == new_parts

Coalesce(new_parts) == CoalesceFrom(new_parts, 1, <<>>, <<>>)

\* the end of the Seq arm with the first part taken for the sequence
Collapse_first(coalesced) ==
    IF coalesced # <<>> THEN coalesced[1] ELSE IRSeq(coalesced)
\* the end of the Seq arm: a single part stands for the sequence
Collapse(coalesced) ==
    IF Len(coalesced) = 1 THEN coalesced[1] ELSE IRSeq(coalesced)

normalize(node) ==
    CASE node.ir = "Seq" -> Collapse(Coalesce(FlattenParts(node.parts)))
      [] node.ir = "Alt" ->
            [node EXCEPT !.branches = [i \in DOMAIN node.branches |-> normalize(node.branches[i])]]
      [] node.ir = "Quant" -> [node EXCEPT !.child = normalize(node.child)]
      [] node.ir = "Group" -> [node EXCEPT !.body = normalize(node.body)]
      [] node.ir = "Look" -> [node EXCEPT !.body = normalize(node.body)]
      [] OTHER -> node

(***************************************************************************)
(* The AST as core/compiler.rs and core/parser.rs use it                   *)
(***************************************************************************)
Literal(value) == [type |-> "Literal", value |-> value]
Dot == [type |-> "Dot"]
Anchor(at) == [type |-> "Anchor", at |-> at]
Sequence(parts) == [type |-> "Sequence", parts |-> parts]
Alternation(branches) == [type |-> "Alternation", branches |-> branches]
CharacterClass(negated, items) ==
    [type |-> "CharacterClass", negated |-> negated, items |-> items]
\* Quantifier { target: QuantifierTarget { child }, min, max, mode, greedy, lazy, possessive }
Quantifier(child, min, max, mode) ==
    [type |-> "Quantifier", child |-> child, min |-> min, max |-> max, mode |-> mode,
     greedy |-> (mode = "Greedy"), lazy |-> (mode = "Lazy"),
     possessive |-> (mode = "Possessive")]
Group(capturing, name, atomic, body) ==
    [type |-> "Group", capturing |-> capturing, name |-> name, atomic |-> atomic, body |-> body]
Lookahead(body) == [type |-> "Lookahead", body |-> body]
NegativeLookahead(body) == [type |-> "NegativeLookahead", body |-> body]
Lookbehind(body) == [type |-> "Lookbehind", body |-> body]
NegativeLookbehind(body) == [type |-> "NegativeLookbehind", body |-> body]
Backreference(by_index, by_name) ==
    [type |-> "Backreference", by_index |-> by_index, by_name |-> by_name]

ClassChar(ch) == [type |-> "Char", ch |-> ch]
ClassRange(from_ch, to_ch) == [type |-> "Range", from_ch |-> from_ch, to_ch |-> to_ch]
ClassEsc(escape_type, property) ==
    [type |-> "Esc", escape_type |-> escape_type, property |-> property]
UnicodeProperty(name, value, negated) ==
    [type |-> "UnicodeProperty", name |-> name, value |-> value, negated |-> negated]

\* MaxBound: Finite(n) | Infinite("Inf") | Null
Finite(n) == [kind |-> "Finite", n |-> n]
Infinite == [kind |-> "Infinite", n |-> 0]
Null == [kind |-> "Null", n |-> 0]

(***************************************************************************)
(* core/compiler.rs: Compiler::lower, lower_class_item                     *)
(***************************************************************************)
lower_class_item(item) ==
    CASE item.type = "Char" -> IRClassChar(item.ch)
      [] item.type = "Range" -> IRClassRange(item.from_ch, item.to_ch)
      [] item.type = "Esc" -> IRClassEsc(item.escape_type, item.property)
      [] item.type = "UnicodeProperty" ->
            IRClassEsc(IF item.negated THEN "P" ELSE "p", Some(item.value))

lower_max(max) ==
    CASE max.kind = "Finite" -> IRFinite(max.n)
      [] max.kind = "Infinite" -> IRInfinite
      [] max.kind = "Null" -> IRInfinite

lower_mode(quant) ==
    IF quant.possessive THEN "Possessive"
    ELSE IF quant.lazy THEN "Lazy"
    ELSE "Greedy"

\* group.atomic.unwrap_or(false)
lower_atomic(atomic) == IF is_some(atomic) THEN atomic[1] ELSE FALSE

RECURSIVE lower(_)
lower(n) ==
    CASE n.type = "Literal" -> IRLit(n.value)
      [] n.type = "Dot" -> IRDot
      [] n.type = "Anchor" ->
            IRAnchor(IF n.at = "NonWordBoundary" THEN "NotWordBoundary" ELSE n.at)
      [] n.type = "Sequence" -> IRSeq([i \in DOMAIN n.parts |-> lower(n.parts[i])])
      [] n.type = "Alternation" ->
            IRAlt([i \in DOMAIN n.branches |-> lower(n.branches[i])])
      [] n.type = "Quantifier" ->
            IRQuant(lower(n.child), n.min, lower_max(n.max), lower_mode(n))
      [] n.type = "Group" ->
            IRGroup(n.capturing, n.name, lower_atomic(n.atomic), lower(n.body))
      [] n.type = "Lookahead" -> IRLook("Ahead", FALSE, lower(n.body))
      [] n.type = "NegativeLookahead" -> IRLook("Ahead", TRUE, lower(n.body))
      [] n.type = "Lookbehind" -> IRLook("Behind", FALSE, lower(n.body))
      [] n.type = "NegativeLookbehind" -> IRLook("Behind", TRUE, lower(n.body))
      [] n.type = "Backreference" -> IRBackref(n.by_index, n.by_name)
      [] n.type = "CharacterClass" ->
            IRCharClass(n.negated, [i \in DOMAIN n.items |-> lower_class_item(n.items[i])])

(***************************************************************************)
(* core/compiler.rs: Compiler::analyze_features, as the set of tags the    *)
(* traversal inserts into self.features_used                               *)
(***************************************************************************)
group_features(group) ==
    (IF group.atomic THEN {"atomic_group"} ELSE {})
    \cup (IF is_some(group.name) THEN {"named_group"} ELSE {})

quant_features(quant) ==
    IF quant.mode = "Possessive" THEN {"possessive_quantifier"} ELSE {}

look_features(look) ==
    IF look.dir = "Behind" THEN {"lookbehind"}
    ELSE IF look.dir = "Ahead" THEN {"lookahead"}
    ELSE {}

class_features(cc) ==
    IF \E i \in DOMAIN cc.items :
          /\ cc.items[i].ir = "Esc"
          /\ cc.items[i].escape_type \in {"p", "P"}
    THEN {"unicode_property"} ELSE {}

RECURSIVE analyze_features(_)
analyze_features(n) ==
    CASE n.ir = "Group" -> group_features(n) \cup analyze_features(n.body)
      [] n.ir = "Quant" -> quant_features(n) \cup analyze_features(n.child)
      [] n.ir = "Look" -> look_features(n) \cup analyze_features(n.body)
      [] n.ir = "Backref" -> {"backreference"}
      [] n.ir = "CharClass" -> class_features(n)
      [] n.ir = "Seq" -> UNION {analyze_features(n.parts[i]) : i \in DOMAIN n.parts}
      [] n.ir = "Alt" -> UNION {analyze_features(n.branches[i]) : i \in DOMAIN n.branches}
      [] OTHER -> {}

\* Compiler::compile: lower, then normalize
compile(root) == normalize(lower(root))

(***************************************************************************)
(* Text.  A char is a one-character string; EAcute stands for U+00E9, a    *)
(* char of two bytes in UTF-8, and VT for U+000B.  String::len() counts    *)
(* bytes, chars().nth() counts chars.                                      *)
(***************************************************************************)
EAcute == "U+00E9"
VT == "U+000B"

WidthOf(ch) == IF ch = EAcute THEN 2 ELSE 1

\* str::len(): the length in bytes
RECURSIVE ByteLen(_)
ByteLen(s) == IF s = <<>> THEN 0 ELSE WidthOf(Head(s)) + ByteLen(Tail(s))

\* Option<char>: NoChar is None
NoChar == ""

\* s.chars().nth(j)
CharsNth(s, j) == IF j < Len(s) THEN s[j + 1] ELSE NoChar

\* char::is_alphanumeric (Unicode letters and digits)
is_alphanumeric(ch) ==
    ch \in {"a", "b", "c", "d", "i", "m", "n", "s", "u", "x", "w", "z",
            "A", "B", "D", "I", "M", "S", "U", "X", "W", "Z", "L",
            "0", "1", "2", "3", EAcute}

\* char::is_whitespace, as str::trim uses it
is_whitespace(ch) == ch \in {" ", "\t", "\n", "\r", "\f", VT}

RECURSIVE trim_start(_)
trim_start(s) ==
    IF s # <<>> /\ is_whitespace(Head(s)) THEN trim_start(Tail(s)) ELSE s

RECURSIVE trim_end(_)
trim_end(s) ==
    IF s # <<>> /\ is_whitespace(s[Len(s)]) THEN trim_end(SubSeq(s, 1, Len(s) - 1)) ELSE s

trim(s) == trim_start(trim_end(s))

starts_with(s, prefix) ==
    Len(s) >= Len(prefix) /\ SubSeq(s, 1, Len(prefix)) = prefix

\* str::lines(): split at "\n", a "\r" right before the "\n" belongs to the
\* line ending, and a final line ending opens no further line
RECURSIVE LinesFrom(_, _, _)
LinesFrom(s, k, line) ==
    IF k > Len(s) THEN (IF line = <<>> THEN <<>> ELSE <<line>>)
    ELSE IF s[k] = "\n"
         THEN <<IF line # <<>> /\ line[Len(line)] = "\r"
                THEN SubSeq(line, 1, Len(line) - 1) ELSE line>>
              \o LinesFrom(s, k + 1, <<>>)
         ELSE LinesFrom(s, k + 1, Append(line, s[k]))

lines(s) == LinesFrom(s, 1, <<>>)

\* [&str]::join("\n")
RECURSIVE join(_)
join(ls) ==
    IF ls = <<>> THEN <<>>
    ELSE IF Len(ls) = 1 THEN ls[1]
    ELSE ls[1] \o <<"\n">> \o join(Tail(ls))

(***************************************************************************)
(* core/nodes.rs: Flags                                                    *)
(***************************************************************************)
FlagsDefault ==
    [ignore_case |-> FALSE, multiline |-> FALSE, dot_all |-> FALSE,
     unicode |-> FALSE, extended |-> FALSE]

RECURSIVE from_letters_loop(_, _)
from_letters_loop(letters, f) ==
    IF letters = <<>> THEN f
    ELSE LET ch == Head(letters)
             g == CASE ch = "i" -> [f EXCEPT !.ignore_case = TRUE]
                    [] ch = "m" -> [f EXCEPT !.multiline = TRUE]
                    [] ch = "s" -> [f EXCEPT !.dot_all = TRUE]
                    [] ch = "u" -> [f EXCEPT !.unicode = TRUE]
                    [] ch = "x" -> [f EXCEPT !.extended = TRUE]
                    [] OTHER -> f
         IN  from_letters_loop(Tail(letters), g)

\* Flags::from_letters: "," and " " are removed before the scan
from_letters(letters) ==
    from_letters_loop(SelectSeq(letters, LAMBDA ch : ch \notin {",", " "}), FlagsDefault)

(***************************************************************************)
(* core/parser.rs: Parser::parse_directives                                *)
(***************************************************************************)
FlagsDirective == <<"%", "f", "l", "a", "g", "s">>

AllowedInFlags ==
    {" ", ",", "\t", "[", "]", "i", "m", "s", "u", "x", "I", "M", "S", "U", "X"}

to_ascii_lowercase(ch) ==
    CASE ch = "I" -> "i" [] ch = "M" -> "m" [] ch = "S" -> "s"
      [] ch = "U" -> "u" [] ch = "X" -> "x" [] ch = "D" -> "d"
      [] ch = "W" -> "w" [] OTHER -> ch

\* the while loop over `after`: the number j of leading allowed chars, or -1
\* when chars().nth(j) is None at a j below the byte length (unwrap panics)
RECURSIVE FlagsTokenEnd(_, _)
FlagsTokenEnd(after, j) ==
    IF j < ByteLen(after)
    THEN IF CharsNth(after, j) = NoChar THEN -1
         ELSE IF CharsNth(after, j) \in AllowedInFlags THEN FlagsTokenEnd(after, j + 1)
         ELSE j
    ELSE j

\* line.find("%flags"): a line whose trimmed form starts with the directive
\* has it right after its leading whitespace
FindFlags(line) == Len(line) - Len(trim_start(line))

\* the loop over the lines, from line k on; ok = FALSE is a panic
RECURSIVE DirectivesFrom(_, _, _, _, _)
DirectivesFrom(ls, k, flags, pattern_lines, in_pattern) ==
    IF k > Len(ls)
    THEN [ok |-> TRUE, flags |-> flags, src |-> join(pattern_lines)]
    ELSE LET line == ls[k]
             stripped == trim(line)
         IN  IF ~in_pattern /\ (stripped = <<>> \/ Head(stripped) = "#")
             THEN DirectivesFrom(ls, k + 1, flags, pattern_lines, in_pattern)
             ELSE IF ~in_pattern /\ starts_with(stripped, FlagsDirective)
             THEN LET idx == FindFlags(line)
                      after == SubSeq(line, idx + Len(FlagsDirective) + 1, Len(line))
                      j == FlagsTokenEnd(after, 0)
                      flags_token == SubSeq(after, 1, j)
                      remainder == SubSeq(after, j + 1, Len(after))
                      letters == [i \in DOMAIN SelectSeq(flags_token,
                                     LAMBDA ch : ch \in {"i", "m", "s", "u", "x",
                                                         "I", "M", "S", "U", "X"}) |->
                                     to_ascii_lowercase(SelectSeq(flags_token,
                                     LAMBDA ch : ch \in {"i", "m", "s", "u", "x",
                                                         "I", "M", "S", "U", "X"})[i])]
                  IN  IF j = -1 THEN [ok |-> FALSE, flags |-> flags, src |-> <<>>]
                      ELSE IF trim(remainder) # <<>>
                      THEN DirectivesFrom(ls, k + 1, from_letters(letters),
                                          Append(pattern_lines, remainder), TRUE)
                      ELSE DirectivesFrom(ls, k + 1, from_letters(letters),
                                          pattern_lines, in_pattern)
             ELSE IF ~in_pattern /\ Head(stripped) = "%"
             THEN DirectivesFrom(ls, k + 1, flags, pattern_lines, in_pattern)
             ELSE DirectivesFrom(ls, k + 1, flags, Append(pattern_lines, line), TRUE)

parse_directives(text) == DirectivesFrom(lines(text), 1, FlagsDefault, <<>>, FALSE)

(***************************************************************************)
(* core/parser.rs: Cursor                                                  *)
(***************************************************************************)
Cursor(text, i, extended_mode, in_class) ==
    [text |-> text, i |-> i, extended_mode |-> extended_mode, in_class |-> in_class]

\* the index i is compared with the length in bytes
eof(cur) == cur.i >= ByteLen(cur.text)

\* the index i selects the i-th char
peek_char(cur, n) == CharsNth(cur.text, cur.i + n)

take(cur) ==
    IF eof(cur) THEN [ch |-> NoChar, cur |-> cur]
    ELSE [ch |-> CharsNth(cur.text, cur.i), cur |-> [cur EXCEPT !.i = @ + 1]]

\* the inner loop of skip_ws_and_comments: a comment runs to the line end
RECURSIVE SkipComment(_)
SkipComment(cur) ==
    IF ~eof(cur) /\ peek_char(cur, 0) \notin {"\r", "\n"}
    THEN SkipComment([cur EXCEPT !.i = @ + 1])
    ELSE cur

\* the outer loop of skip_ws_and_comments
RECURSIVE SkipLoop(_)
SkipLoop(cur) ==
    IF eof(cur) THEN cur
    ELSE LET ch == peek_char(cur, 0)
         IN  IF ch \in {" ", "\t", "\r", "\n"} THEN SkipLoop([cur EXCEPT !.i = @ + 1])
             ELSE IF ch = "#" THEN SkipLoop(SkipComment(cur))
             ELSE cur

\* skip_ws_and_comments without the test of extended_mode
skip_ws_and_comments_always(cur) ==
    IF cur.in_class > 0 THEN cur ELSE SkipLoop(cur)
\* Cursor::skip_ws_and_comments
skip_ws_and_comments(cur) ==
    IF ~cur.extended_mode \/ cur.in_class > 0 THEN cur ELSE SkipLoop(cur)

(***************************************************************************)
(* core/hint_engine.rs: get_hint.  Messages and hints are strings.         *)
(***************************************************************************)
\* str::contains taken for equality of the whole strings
contains_whole(s, pat) == s = pat
\* str::contains
contains(s, pat) ==
    \E k \in 0..(Len(s) - Len(pat)) : SubSeq(s, k + 1, k + Len(pat)) = pat

\* text and pos are not read
get_hint(error_message, text, pos) ==
    IF contains(error_message, "Unterminated group")
    THEN Some("This group was opened with '(' but never closed. Add a matching ')' to close the group.")
    ELSE IF contains(error_message, "Unterminated character class")
    THEN Some("This character class was opened with '[' but never closed. Add a matching ']' to close the character class.")
    ELSE IF contains(error_message, "Empty character class")
    THEN Some("Character classes must contain at least one item. Add characters, ranges, or escapes inside the brackets.")
    ELSE IF contains(error_message, "Invalid flag")
    THEN Some("Valid flags are: i (case-insensitive), m (multiline), s (dotall), u (unicode), x (extended/free-spacing).")
    ELSE IF contains(error_message, "Alternation lacks left-hand side")
    THEN Some("An alternation '|' must have content on both sides. Remove the leading '|' or add content before it.")
    ELSE IF contains(error_message, "Alternation lacks right-hand side")
    THEN Some("An alternation '|' must have content on both sides. Remove the trailing '|' or add content after it.")
    ELSE IF contains(error_message, "Empty alternation branch")
    THEN Some("Each branch of an alternation must contain at least one item. Remove the extra '|' or add content between the pipes.")
    ELSE IF contains(error_message, "Unexpected trailing input")
    THEN Some("There is unexpected content at the end of the pattern. Check for unmatched parentheses or other syntax errors.")
    ELSE None

(***************************************************************************)
(* core/errors.rs: STRlingParseError::new, and the three outcomes of a     *)
(* parser method: Ok(node), Err(error), or a panic that unwinds the call.  *)
(* p is the Parser: [flags, src, cur, cap_count, cap_names].               *)
(***************************************************************************)
STRlingParseError(message, pos, text, hint) ==
    [message |-> message, pos |-> pos, text |-> text, hint |-> hint]

NoNode == [type |-> "None"]
NoError == STRlingParseError("", 0, <<>>, None)

POk(node, p) == [st |-> "Ok", node |-> node, p |-> p, err |-> NoError]
PErr(error, p) == [st |-> "Err", node |-> NoNode, p |-> p, err |-> error]
PPanic(p) == [st |-> "Panic", node |-> NoNode, p |-> p, err |-> NoError]

\* Parser::raise_error: the hint engine is not consulted
raise_error(p, message, pos) ==
    PErr(STRlingParseError(message, pos, p.src, None), p)

\* self.cur.take() when only the cursor matters
Taken(p) == [p EXCEPT !.cur = take(p.cur).cur]

Skipped(p) == [p EXCEPT !.cur = skip_ws_and_comments(p.cur)]

expect_char(p, expected, error_msg) ==
    LET t == take(p.cur)
        q == [p EXCEPT !.cur = t.cur]
    IN  IF t.ch # NoChar
        THEN IF t.ch = expected THEN POk(NoNode, q)
             ELSE raise_error(q, error_msg, q.cur.i - 1)
        ELSE raise_error(q, error_msg, q.cur.i)

RECURSIVE GroupNameLoop(_, _)
GroupNameLoop(p, name) ==
    LET ch == peek_char(p.cur, 0)
    IN  IF ch = NoChar \/ ch = ">"
        THEN IF name = <<>> THEN raise_error(p, "Empty group name", p.cur.i)
             ELSE POk(name, p)
        ELSE IF is_alphanumeric(ch) \/ ch = "_"
        THEN GroupNameLoop(Taken(p), Append(name, ch))
        ELSE raise_error(p, "Invalid character in group name: " \o ch, p.cur.i)

\* Ok carries the name in the node field
parse_group_name(p) == GroupNameLoop(p, <<>>)

RECURSIVE ClassItemsLoop(_, _, _, _)
ClassItemsLoop(p, start_pos, negated, items) ==
    IF eof(p.cur) THEN raise_error(p, "Unterminated character class", start_pos)
    ELSE IF peek_char(p.cur, 0) = "]"
    THEN LET q == [Taken(p) EXCEPT !.cur.in_class = @ - 1]
         IN  IF items = <<>> THEN raise_error(q, "Empty character class", start_pos)
             ELSE POk(CharacterClass(negated, items), q)
    ELSE LET t == take(p.cur)
         IN  IF t.ch = NoChar THEN PPanic([p EXCEPT !.cur = t.cur])
             ELSE ClassItemsLoop([p EXCEPT !.cur = t.cur], start_pos, negated,
                                 Append(items, ClassChar(<<t.ch>>)))

parse_char_class(p) ==
    LET start_pos == p.cur.i
        p1 == [Taken(p) EXCEPT !.cur.in_class = @ + 1]
        negated == peek_char(p1.cur, 0) = "^"
        p2 == IF negated THEN Taken(p1) ELSE p1
    IN  ClassItemsLoop(p2, start_pos, negated, <<>>)

control_escapes(ch) ==
    CASE ch = "n" -> "\n" [] ch = "r" -> "\r" [] ch = "t" -> "\t"
      [] ch = "f" -> "\f" [] ch = "v" -> VT

parse_escape(p) ==
    LET start_pos == p.cur.i
        p1 == Taken(p)
        t == take(p1.cur)
        p2 == [p1 EXCEPT !.cur = t.cur]
        ch == t.ch
    IN  IF eof(p1.cur) THEN raise_error(p1, "Incomplete escape sequence", start_pos)
        ELSE IF ch = NoChar THEN PPanic(p2)
        ELSE CASE ch = "b" -> POk(Anchor("WordBoundary"), p2)
               [] ch = "B" -> POk(Anchor("NotWordBoundary"), p2)
               [] ch = "A" -> POk(Anchor("AbsoluteStart"), p2)
               [] ch = "Z" -> POk(Anchor("EndBeforeFinalNewline"), p2)
               [] ch = "z" -> POk(Anchor("AbsoluteEnd"), p2)
               [] ch \in {"d", "D", "w", "W", "s", "S"} ->
                    POk(CharacterClass(ch \in {"D", "W", "S"},
                                       <<ClassEsc(to_ascii_lowercase(ch), None)>>), p2)
               [] ch \in {"n", "r", "t", "f", "v"} ->
                    POk(Literal(<<control_escapes(ch)>>), p2)
               [] OTHER -> POk(Literal(<<ch>>), p2)

parse_literal(p) ==
    LET t == take(p.cur)
        q == [p EXCEPT !.cur = t.cur]
    IN  IF t.ch # NoChar THEN POk(Literal(<<t.ch>>), q)
        ELSE raise_error(q, "Unexpected end of input", q.cur.i)

\* Ok(Some((min, max, mode))) or Ok(None); the method has no Err path
NoQuantifier(p) == [some |-> FALSE, min |-> 0, max |-> Null, mode |-> "", p |-> p]

\* QuantifierMode with the suffix left unread
QuantifierMode_greedy(p, min, max) ==
    [some |-> TRUE, min |-> min, max |-> max, mode |-> "Greedy", p |-> p]

\* the mode suffix of try_parse_quantifier, after the quantifier char
QuantifierMode(p, min, max) ==
    IF peek_char(p.cur, 0) = "?"
    THEN [some |-> TRUE, min |-> min, max |-> max, mode |-> "Lazy", p |-> Taken(p)]
    ELSE IF peek_char(p.cur, 0) = "+"
    THEN [some |-> TRUE, min |-> min, max |-> max, mode |-> "Possessive", p |-> Taken(p)]
    ELSE [some |-> TRUE, min |-> min, max |-> max, mode |-> "Greedy", p |-> p]

try_parse_quantifier(p) ==
    IF eof(p.cur) THEN NoQuantifier(p)
    ELSE LET ch == peek_char(p.cur, 0)
         IN  CASE ch = "*" -> QuantifierMode(Taken(p), 0, Infinite)
               [] ch = "+" -> QuantifierMode(Taken(p), 1, Infinite)
               [] ch = "?" -> QuantifierMode(Taken(p), 0, Finite(1))
               [] ch = "{" -> NoQuantifier(Taken(p))
               [] OTHER -> NoQuantifier(p)

(***************************************************************************)
(* core/errors.rs: format_error and to_lsp_diagnostic.  The text of an     *)
(* error is a sequence of chars, its message and hint are strings, and so  *)
(* is everything the two methods build.                                    *)
(***************************************************************************)
\* the String a sequence of chars spells
RECURSIVE StringOf(_)
StringOf(s) == IF s = <<>> THEN "" ELSE Head(s) \o StringOf(Tail(s))

\* " ".repeat(n)
RECURSIVE repeat_space(_)
repeat_space(n) == IF n = 0 THEN "" ELSE " " \o repeat_space(n - 1)

\* the `for (i, line) in lines.iter().enumerate()` loop of both methods, from
\* line i (0-indexed) on: the line the test `current_pos + line_len > pos`
\* picks, if any, and current_pos when the loop is left
RECURSIVE FindLine(_, _, _, _)
FindLine(ls, i, current_pos, pos) ==
    IF i >= Len(ls) THEN [found |-> FALSE, i |-> 0, col |-> pos, current_pos |-> current_pos]
    ELSE LET line_len == ByteLen(ls[i + 1]) + 1
         IN  IF current_pos + line_len > pos
             THEN [found |-> TRUE, i |-> i, col |-> pos - current_pos,
                   current_pos |-> current_pos]
             ELSE FindLine(ls, i + 1, current_pos + line_len, pos)

\* format_error: line_num, line_text and col once the loop and the
\* `if line_text.is_empty()` block after it have run
FormatLine(e, ls, at) ==
    IF at.found /\ ls[at.i + 1] # <<>>
    THEN [line_num |-> at.i + 1, line_text |-> ls[at.i + 1], col |-> at.col]
    ELSE IF ls # <<>>
    THEN [line_num |-> Len(ls), line_text |-> ls[Len(ls)], col |-> ByteLen(ls[Len(ls)])]
    ELSE [line_num |-> IF at.found THEN at.i + 1 ELSE 1, line_text |-> e.text, col |-> e.pos]

\* format_error: the parts joined by "\n"
FormatParts(e, l) ==
    "STRling Parse Error: " \o e.message \o "\n" \o "\n"
    \o "> " \o ToString(l.line_num) \o " | " \o StringOf(l.line_text) \o "\n"
    \o ">   | " \o repeat_space(l.col) \o "^"
    \o (IF is_some(e.hint) THEN "\n" \o "\n" \o "Hint: " \o e.hint[1] ELSE "")

format_error(e) ==
    IF e.text = <<>> THEN e.message \o " at position " \o ToString(e.pos)
    ELSE FormatParts(e, FormatLine(e, lines(e.text), FindLine(lines(e.text), 0, 0, e.pos)))

\* char::to_lowercase, for the chars of a message
UpperCase == "ABCDEFGHIJKLMNOPQRSTUVWXYZ"
LowerCase == "abcdefghijklmnopqrstuvwxyz"

to_lowercase(ch) ==
    IF \E k \in 1..Len(UpperCase) : SubSeq(UpperCase, k, k) = ch
    THEN LET k == CHOOSE k \in 1..Len(UpperCase) : SubSeq(UpperCase, k, k) = ch
         IN  SubSeq(LowerCase, k, k)
    ELSE ch

\* the chars to_lsp_diagnostic replaces by "_"
CodeSeparators == {" ", "'", "\"", "(", ")", "[", "]", "{", "}", "\\", "/"}

\* message.to_lowercase() with every separator replaced by "_", as chars
RECURSIVE CodeChars(_, _)
CodeChars(message, k) ==
    IF k > Len(message) THEN <<>>
    ELSE LET ch == SubSeq(message, k, k)
         IN  <<IF ch \in CodeSeparators THEN "_" ELSE to_lowercase(ch)>>
             \o CodeChars(message, k + 1)

\* split('_'), filter(non-empty), join("_"): runs of "_" become one "_" and
\* none is left at either end
RECURSIVE JoinWords(_, _, _)
JoinWords(chars, k, code) ==
    IF k > Len(chars) THEN code
    ELSE IF chars[k] = "_" THEN JoinWords(chars, k + 1, code)
    ELSE IF code # "" /\ k > 1 /\ chars[k - 1] = "_"
    THEN JoinWords(chars, k + 1, code \o "_" \o chars[k])
    ELSE JoinWords(chars, k + 1, code \o chars[k])

error_code(message) == JoinWords(CodeChars(message, 1), 1, "")

\* to_lsp_diagnostic: line_num and col once the loop and the
\* "beyond the last line" block after it have run
LspLine(e, ls, at) ==
    IF at.current_pos <= e.pos /\ ls # <<>>
    THEN [line_num |-> Len(ls) - 1, col |-> ByteLen(ls[Len(ls)])]
    ELSE IF ls = <<>> THEN [line_num |-> 0, col |-> e.pos]
    ELSE [line_num |-> at.i, col |-> at.col]

\* the JSON value to_lsp_diagnostic builds
LspDiagnostic(e, l) ==
    [range |-> [start |-> [line |-> l.line_num, character |-> l.col],
                end |-> [line |-> l.line_num, character |-> l.col + 1]],
     severity |-> 1,
     message |-> e.message \o (IF is_some(e.hint) THEN "\n" \o "\n" \o "Hint: " \o e.hint[1]
                               ELSE ""),
     source |-> "STRling",
     code |-> error_code(e.message)]

to_lsp_diagnostic(e) ==
    LspDiagnostic(e, LspLine(e, IF e.text # <<>> THEN lines(e.text) ELSE <<>>,
                             FindLine(IF e.text # <<>> THEN lines(e.text) ELSE <<>>,
                                      0, 0, e.pos)))

(***************************************************************************)
(* core/parser.rs: the recursive descent                                   *)
(***************************************************************************)
RECURSIVE parse_alt(_)
RECURSIVE AltLoop(_, _, _)
RECURSIVE SeqLoop(_, _)
RECURSIVE parse_atom(_)
RECURSIVE parse_group(_)

\* what parse_group has read when it turns to the body: the group form, the
\* message expect_char gets for the closing ")", the name of a named group
GroupHead(form, error_msg, name, p) ==
    [st |-> "Ok", form |-> form, error_msg |-> error_msg, name |-> name, p |-> p,
     failed |-> POk(NoNode, p)]

\* an error raised before the body
GroupHeadErr(failed) ==
    [st |-> "Err", form |-> "", error_msg |-> "", name |-> <<>>, p |-> failed.p,
     failed |-> failed]

\* the last statements of parse_group: a regular capturing group, counted
\* before its body is parsed
CapturingHead(p) ==
    GroupHead("Capturing", "Unterminated group", <<>>, [p EXCEPT !.cap_count = @ + 1])

\* the arm `(?<name>...)`, entered after "(?<" with a char other than = and !
NamedHead(p) ==
    LET name == parse_group_name(p)
        gt == expect_char(name.p, ">", "Unterminated group name")
    IN  IF name.st # "Ok" THEN GroupHeadErr(name)
        ELSE IF gt.st # "Ok" THEN GroupHeadErr(gt)
        ELSE GroupHead("Named", "Unterminated group", name.node, gt.p)

\* the arm `(?<...`, entered after "(?" with the cursor on "<"
AngleHead(p) ==
    LET p1 == Taken(p)
        next_ch == peek_char(p1.cur, 0)
    IN  IF next_ch = NoChar THEN CapturingHead(p1)
        ELSE IF next_ch = "="
        THEN GroupHead("Lookbehind", "Unterminated lookbehind", <<>>, Taken(p1))
        ELSE IF next_ch = "!"
        THEN GroupHead("NegativeLookbehind", "Unterminated lookbehind", <<>>, Taken(p1))
        ELSE NamedHead(p1)

\* the match on the char after "(?"
ModifierHead(p) ==
    LET ch == peek_char(p.cur, 0)
    IN  CASE ch = NoChar -> CapturingHead(p)
          [] ch = ":" -> GroupHead("NonCapturing", "Unterminated group", <<>>, Taken(p))
          [] ch = "=" -> GroupHead("Lookahead", "Unterminated lookahead", <<>>, Taken(p))
          [] ch = "!" -> GroupHead("NegativeLookahead", "Unterminated lookahead", <<>>, Taken(p))
          [] ch = "<" -> AngleHead(p)
          [] ch = ">" -> GroupHead("Atomic", "Unterminated atomic group", <<>>, Taken(p))
          [] OTHER -> GroupHeadErr(raise_error(p, "Unknown group modifier: ?" \o ch,
                                               p.cur.i - 1))

\* the node each arm of parse_group returns
GroupNode(head, body) ==
    CASE head.form = "Capturing" -> Group(TRUE, None, Some(FALSE), body)
      [] head.form = "NonCapturing" -> Group(FALSE, None, Some(FALSE), body)
      [] head.form = "Named" -> Group(TRUE, Some(head.name), Some(FALSE), body)
      [] head.form = "Atomic" -> Group(FALSE, None, Some(TRUE), body)
      [] head.form = "Lookahead" -> Lookahead(body)
      [] head.form = "NegativeLookahead" -> NegativeLookahead(body)
      [] head.form = "Lookbehind" -> Lookbehind(body)
      [] head.form = "NegativeLookbehind" -> NegativeLookbehind(body)

\* a named group is recorded and counted once it is closed
GroupCounted(head, p) ==
    IF head.form = "Named"
    THEN [p EXCEPT !.cap_names = @ \cup {head.name}, !.cap_count = @ + 1]
    ELSE p

\* the end of every arm: `self.expect_char(')', error_msg)?; return Ok(..)`
GroupClosed(head, body, closed) ==
    IF closed.st # "Ok" THEN closed
    ELSE POk(GroupNode(head, body.node), GroupCounted(head, closed.p))

\* `let body = self.parse_alt()?;` and what follows it
GroupBody(head, body) ==
    IF body.st # "Ok" THEN body
    ELSE GroupClosed(head, body, expect_char(body.p, ")", head.error_msg))

\* the arm parse_group takes, up to its body
GroupOpened(head) ==
    IF head.st # "Ok" THEN head.failed ELSE GroupBody(head, parse_alt(head.p))

\* the chars of parse_group before the body; p1 is the parser after "("
GroupHeadAt(p1) ==
    IF peek_char(p1.cur, 0) = "?" THEN ModifierHead(Taken(p1)) ELSE CapturingHead(p1)

\* start_pos is computed and never read
parse_group(p) == GroupOpened(GroupHeadAt(Taken(p)))

parse_atom(p) ==
    LET ch == peek_char(p.cur, 0)
    IN  IF eof(p.cur) THEN raise_error(p, "Unexpected end of input", p.cur.i)
        ELSE IF ch = NoChar THEN PPanic(p)
        ELSE CASE ch = "." -> POk(Dot, Taken(p))
               [] ch = "^" -> POk(Anchor("Start"), Taken(p))
               [] ch = "$" -> POk(Anchor("End"), Taken(p))
               [] ch = "(" -> parse_group(p)
               [] ch = "[" -> parse_char_class(p)
               [] ch = "\\" -> parse_escape(p)
               [] OTHER -> parse_literal(p)

\* the end of parse_seq with the parts always wrapped in a Sequence
SeqResult_wrapped(parts, p) == POk(Sequence(parts), p)
\* the end of parse_seq, after the loop
SeqResult(parts, p) ==
    IF parts = <<>> THEN POk(Literal(<<>>), p)
    ELSE IF Len(parts) = 1 THEN POk(parts[1], p)
    ELSE POk(Sequence(parts), p)

\* parse_seq: the part pushed for an atom and the quantifier after it
SeqPart(parts, atom, quant) ==
    SeqLoop(quant.p, Append(parts, IF quant.some
                                   THEN Quantifier(atom.node, quant.min, quant.max, quant.mode)
                                   ELSE atom.node))

\* parse_seq: `let atom = self.parse_atom()?;` and the quantifier after it
SeqAtom(parts, atom) ==
    IF atom.st # "Ok" THEN atom
    ELSE SeqPart(parts, atom, try_parse_quantifier(Skipped(atom.p)))

\* parse_seq: one turn of the loop, after skip_ws_and_comments
SeqTurn(p, parts) ==
    IF eof(p.cur) THEN SeqResult(parts, p)
    ELSE IF peek_char(p.cur, 0) \in {"|", ")"} THEN SeqResult(parts, p)
    ELSE SeqAtom(parts, parse_atom(p))

\* the loop of parse_seq
SeqLoop(p, parts) == SeqTurn(Skipped(p), parts)

parse_seq(p) == SeqLoop(p, <<>>)

\* the end of parse_alt, after the loop
AltResult(branches, p) ==
    IF Len(branches) = 1 THEN POk(branches[1], p) ELSE POk(Alternation(branches), p)

\* parse_alt: the test of its while loop; p is the parser after
\* skip_ws_and_comments
AltNext(p, branches) ==
    IF peek_char(p.cur, 0) = "|"
    THEN AltLoop(Skipped(Taken(p)), branches, p.cur.i)
    ELSE AltResult(branches, p)

\* parse_alt: `branches.push(self.parse_seq()?)` and the skip after it
AltBranch(branches, seq) ==
    IF seq.st # "Ok" THEN seq
    ELSE AltNext(Skipped(seq.p), Append(branches, seq.node))

\* one branch of parse_alt.  p is the parser after skip_ws_and_comments, at
\* the start of the branch; branches is empty for the first branch, and
\* pipe_pos is the offset of the "|" before any later one.
AltLoop(p, branches, pipe_pos) ==
    IF branches = <<>> /\ peek_char(p.cur, 0) = "|"
    THEN raise_error(p, "Alternation lacks left-hand side", p.cur.i)
    ELSE IF branches # <<>> /\ eof(p.cur)
    THEN raise_error(p, "Alternation lacks right-hand side", pipe_pos)
    ELSE IF branches # <<>> /\ peek_char(p.cur, 0) = "|"
    THEN raise_error(p, "Empty alternation branch", pipe_pos)
    ELSE AltBranch(branches, parse_seq(p))

parse_alt(p) == AltLoop(Skipped(p), <<>>, 0)

UnmatchedParenHint ==
    "This ')' character does not have a matching opening '('. Did you mean to escape it with '\\)'?"

\* TrailingInput with the ")" taken for any other trailing input
TrailingInput_noParen(p) ==
    raise_error(p, "Unexpected trailing input", p.cur.i)

\* Parser::parse, the statements after parse_alt when input remains
TrailingInput(p) ==
    LET ch == peek_char(p.cur, 0)
    IN  IF ch = ")"
        THEN PErr(STRlingParseError("Unmatched ')'", p.cur.i, p.src, Some(UnmatchedParenHint)), p)
        ELSE IF ch = "|" THEN raise_error(p, "Alternation lacks right-hand side", p.cur.i)
        ELSE raise_error(p, "Unexpected trailing input", p.cur.i)

\* Parser::parse, the statements after `let node = self.parse_alt()?;`
ParseEnd(alt, p) ==
    IF ~eof(p.cur) THEN TrailingInput(p) ELSE POk(alt.node, p)

\* Parser::parse, the `?` on parse_alt
ParseAlt(alt) == IF alt.st # "Ok" THEN alt ELSE ParseEnd(alt, Skipped(alt.p))

\* Parser::parse
Parser_parse(p) == ParseAlt(parse_alt(p))

\* Parser::new with the cursor's mode taken from the ignore_case flag
Parser_new_caseExtended(d) ==
    [flags |-> d.flags, src |-> d.src, cur |-> Cursor(d.src, 0, d.flags.ignore_case, 0),
     cap_count |-> 0, cap_names |-> {}]
\* Parser::new; parse_directives has run, d is what it returned
Parser_new(d) ==
    [flags |-> d.flags, src |-> d.src, cur |-> Cursor(d.src, 0, d.flags.extended, 0),
     cap_count |-> 0, cap_names |-> {}]

\* parse once the directives are read
ParseSource(d) ==
    IF ~d.ok THEN PPanic(Parser_new([d EXCEPT !.flags = FlagsDefault]))
    ELSE Parser_parse(Parser_new(d))

\* pub fn parse(text) -> Result<(Flags, Node), STRlingParseError>
parse(text) == ParseSource(parse_directives(text))

(***************************************************************************)
(* emitters/pcre2.rs: PCRE2Emitter                                         *)
(* The emitter is written against field names that core/ir.rs does not     *)
(* declare; each is paired with the ir.rs field of the same meaning:        *)
(* quant.max.as_ref() (None unbounded) with IRMaxBound, look.positive with  *)
(* the negation of neg, backref.name / num with by_name / by_index, the     *)
(* class items Literal(value), Range(from, to), Escape with Char(ch),       *)
(* Range(from_ch, to_ch), Esc.                                              *)
(***************************************************************************)
escape_char(ch) ==
    CASE ch \in {".", "*", "+", "?", "^", "$", "|", "(", ")", "[", "]", "{", "}", "\\"} ->
            "\\" \o ch
      [] ch = "\n" -> "\\n"
      [] ch = "\r" -> "\\r"
      [] ch = "\t" -> "\\t"
      [] ch = "\f" -> "\\f"
      [] ch = VT -> "\\v"
      [] OTHER -> ch

RECURSIVE emit_literal(_)
emit_literal(s) == IF s = <<>> THEN "" ELSE escape_char(Head(s)) \o emit_literal(Tail(s))

\* the anchors the Anchor arm of emit_node has an arm for
KnownAnchors ==
    {"Start", "End", "WordBoundary", "NotWordBoundary", "AbsoluteStart",
     "EndBeforeFinalNewline", "AbsoluteEnd"}

\* the anchor arm of emit_node; "panic" stands for the panic of the last arm
emit_anchor(at) ==
    CASE at = "Start" -> "^"
      [] at = "End" -> "$"
      [] at = "WordBoundary" -> "\\b"
      [] at = "NotWordBoundary" -> "\\B"
      [] at = "AbsoluteStart" -> "\\A"
      [] at = "EndBeforeFinalNewline" -> "\\Z"
      [] at = "AbsoluteEnd" -> "\\z"
      [] OTHER -> "panic"

\* the Quant arm with the "?" token left out
emit_quantifier_noOptional(min, max) ==
    CASE min = 0 /\ is_none(max) -> "*"
      [] min = 1 /\ is_none(max) -> "+"
      [] is_none(max) -> "{" \o ToString(min) \o ",}"
      [] min = max[1] -> "{" \o ToString(min) \o "}"
      [] OTHER -> "{" \o ToString(min) \o "," \o ToString(max[1]) \o "}"
\* the Quant arm: `match (quant.min, quant.max.as_ref())`, first arm that fits
emit_quantifier(min, max) ==
    IF min = 0 /\ is_none(max) THEN "*"
    ELSE IF min = 1 /\ is_none(max) THEN "+"
    ELSE IF min = 0 /\ max = Some(1) THEN "?"
    ELSE IF is_none(max) THEN "{" \o ToString(min) \o ",}"
    ELSE IF min = max[1] THEN "{" \o ToString(min) \o "}"
    ELSE "{" \o ToString(min) \o "," \o ToString(max[1]) \o "}"

\* quant.max.as_ref(): None for an unbounded max
max_as_ref(max) == IF max.kind = "Infinite" THEN None ELSE Some(max.n)

\* the Quant arm: `match quant.mode.as_str()`
mode_suffix(mode) ==
    CASE mode = "Lazy" -> "?"
      [] mode = "Possessive" -> "+"
      [] OTHER -> ""

\* the nodes emit_node calls itself on, in the order of the calls
EmitChildren(n) ==
    CASE n.ir = "Seq" -> n.parts
      [] n.ir = "Alt" -> n.branches
      [] n.ir = "Quant" -> <<n.child>>
      [] n.ir = "Group" -> <<n.body>>
      [] n.ir = "Look" -> <<n.body>>
      [] OTHER -> <<>>

\* Vec<String>::join(sep)
RECURSIVE join_strings(_, _)
join_strings(strs, sep) ==
    IF strs = <<>> THEN ""
    ELSE IF Len(strs) = 1 THEN strs[1]
    ELSE strs[1] \o sep \o join_strings(Tail(strs), sep)

\* escape_class_char on one char
escape_class_one(ch) ==
    CASE ch \in {"]", "\\", "^", "-"} -> "\\" \o ch
      [] ch = "\n" -> "\\n"
      [] ch = "\r" -> "\\r"
      [] ch = "\t" -> "\\t"
      [] OTHER -> ch

RECURSIVE escape_class_char(_)
escape_class_char(s) ==
    IF s = <<>> THEN "" ELSE escape_class_one(Head(s)) \o escape_class_char(Tail(s))

\* the `value` the last arm of emit_class_item reads from an escape: the
\* escape as it is written in a pattern
escape_value(item) ==
    "\\" \o item.escape_type
    \o (IF is_some(item.property) THEN "{" \o StringOf(item.property[1]) \o "}" ELSE "")

emit_class_item(item) ==
    CASE item.ir = "Char" -> escape_class_char(item.ch)
      [] item.ir = "Range" ->
            escape_class_char(item.from_ch) \o "-" \o escape_class_char(item.to_ch)
      [] item.ir = "Esc" ->
            CASE item.escape_type = "Digit" -> "\\d"
              [] item.escape_type = "NotDigit" -> "\\D"
              [] item.escape_type = "Word" -> "\\w"
              [] item.escape_type = "NotWord" -> "\\W"
              [] item.escape_type = "Space" -> "\\s"
              [] item.escape_type = "NotSpace" -> "\\S"
              [] OTHER -> escape_value(item)

RECURSIVE EmitClassItems(_)
EmitClassItems(items) ==
    IF items = <<>> THEN ""
    ELSE emit_class_item(Head(items)) \o EmitClassItems(Tail(items))

\* the arm of emit_node for n, given what emit_node returned for its
\* children; "panic" stands for the panic of a last arm
EmitArm(n, inner) ==
    CASE n.ir = "Lit" -> emit_literal(n.value)
      [] n.ir = "Dot" -> "."
      [] n.ir = "Anchor" -> emit_anchor(n.at)
      [] n.ir = "Seq" -> join_strings(inner, "")
      [] n.ir = "Alt" -> join_strings(inner, "|")
      [] n.ir = "Quant" -> inner[1] \o emit_quantifier(n.min, max_as_ref(n.max)) \o mode_suffix(n.mode)
      [] n.ir = "Group" ->
            IF n.atomic THEN "(?>" \o inner[1] \o ")"
            ELSE IF is_some(n.name) THEN "(?<" \o StringOf(n.name[1]) \o ">" \o inner[1] \o ")"
            ELSE IF ~n.capturing THEN "(?:" \o inner[1] \o ")"
            ELSE "(" \o inner[1] \o ")"
      [] n.ir = "Look" ->
            CASE n.dir = "Ahead" /\ ~n.neg -> "(?=" \o inner[1] \o ")"
              [] n.dir = "Ahead" /\ n.neg -> "(?!" \o inner[1] \o ")"
              [] n.dir = "Behind" /\ ~n.neg -> "(?<=" \o inner[1] \o ")"
              [] n.dir = "Behind" /\ n.neg -> "(?<!" \o inner[1] \o ")"
              [] OTHER -> "panic"
      [] n.ir = "Backref" ->
            IF is_some(n.by_name) THEN "\\k<" \o StringOf(n.by_name[1]) \o ">"
            ELSE IF is_some(n.by_index) THEN "\\" \o ToString(n.by_index[1])
            ELSE "panic"
      [] n.ir = "CharClass" ->
            "[" \o (IF n.negated THEN "^" ELSE "") \o EmitClassItems(n.items) \o "]"

\* the arms of emit_node that end in panic!, without the arms of "Behind"
PanicArm_aheadOnly(n) ==
    \/ n.ir = "Anchor" /\ n.at \notin KnownAnchors
    \/ n.ir = "Look" /\ n.dir # "Ahead"
    \/ n.ir = "Backref" /\ is_none(n.by_name) /\ is_none(n.by_index)
\* the arms of emit_node that end in panic!
PanicArm(n) ==
    \/ n.ir = "Anchor" /\ n.at \notin KnownAnchors
    \/ n.ir = "Look" /\ n.dir \notin {"Ahead", "Behind"}
    \/ n.ir = "Backref" /\ is_none(n.by_name) /\ is_none(n.by_index)

\* emit_node reaches a panic! in the tree of n
RECURSIVE emit_panics(_)
emit_panics(n) ==
    \/ PanicArm(n)
    \/ \E k \in 1..Len(EmitChildren(n)) : emit_panics(EmitChildren(n)[k])

RECURSIVE emit_node(_), EmitAll(_)
emit_node(n) == EmitArm(n, EmitAll(EmitChildren(n)))

EmitAll(ns) == IF ns = <<>> THEN <<>> ELSE <<emit_node(Head(ns))>> \o EmitAll(Tail(ns))

\* PCRE2Emitter::emit
emit(root) == emit_node(root)

\* what a call of emit comes to: Some(text), or EmitPanicked
EmitPanicked == <<"panic", "panic">>
EmitOutcome(root) == IF emit_panics(root) THEN EmitPanicked ELSE Some(emit(root))

(***************************************************************************)
(* IR trees handed to normalize: every tree of at most MaxIRNodes nodes    *)
(***************************************************************************)
IRLeaves == {IRLit(<<>>), IRLit(<<"a">>), IRDot}

RECURSIVE IRTreesOfSize(_), IRForests(_)
IRTreesOfSize(n) ==
    IF n = 1 THEN IRLeaves \cup {IRSeq(<<>>), IRAlt(<<>>)}
    ELSE LET sub == IRTreesOfSize(n - 1)
             lists == IRForests(n - 1)
         IN  {IRQuant(c, 0, IRInfinite, "Greedy") : c \in sub}
             \cup {IRGroup(TRUE, None, FALSE, c) : c \in sub}
             \cup {IRLook("Ahead", FALSE, c) : c \in sub}
             \cup {IRSeq(f) : f \in lists}
             \cup {IRAlt(f) : f \in lists}
IRForests(total) ==
    IF total = 0 THEN {<<>>}
    ELSE UNION {LET heads == IRTreesOfSize(k)
                    tails == IRForests(total - k)
                IN  {<<t>> \o f : t \in heads, f \in tails} : k \in 1..total}

IRTrees(max) == UNION {IRTreesOfSize(n) : n \in 1..max}

Unset == [ir |-> "Unset"]

(***************************************************************************)
(* ASTs handed to the compiler: every tree of at most max nodes, built     *)
(* either from the plain variants (literals, Dot, a greedy Quantifier, a   *)
(* capturing Group, a Lookahead) or from the variants the feature          *)
(* analysis tells apart                                                    *)
(***************************************************************************)
ASTLeaves(rich) ==
    IF rich
    THEN {Literal(<<"a">>), Dot, Backreference(Some(1), None),
          CharacterClass(FALSE, <<UnicodeProperty(None, <<"L">>, FALSE)>>),
          CharacterClass(TRUE, <<ClassEsc("d", None)>>)}
    ELSE {Literal(<<>>), Literal(<<"a">>), Literal(<<"b">>), Dot}

ASTWrap(rich, c) ==
    IF rich
    THEN {Quantifier(c, 0, Infinite, "Lazy"),
          Quantifier(c, 1, Infinite, "Possessive"),
          Group(TRUE, None, Some(FALSE), c),
          Group(TRUE, Some(<<"n">>), Some(FALSE), c),
          Group(TRUE, Some(<<>>), None, c),
          Group(FALSE, None, Some(TRUE), c),
          Lookahead(c),
          NegativeLookbehind(c)}
    ELSE {Quantifier(c, 0, Infinite, "Greedy"),
          Group(TRUE, None, Some(FALSE), c),
          Lookahead(c)}

RECURSIVE ASTsOfSize(_, _), ASTForests(_, _)
ASTsOfSize(n, rich) ==
    IF n = 1 THEN ASTLeaves(rich) \cup {Sequence(<<>>), Alternation(<<>>)}
    ELSE LET sub == ASTsOfSize(n - 1, rich)
             lists == ASTForests(n - 1, rich)
         IN  UNION {ASTWrap(rich, c) : c \in sub}
             \cup {Sequence(f) : f \in lists}
             \cup {Alternation(f) : f \in lists}
ASTForests(total, rich) ==
    IF total = 0 THEN {<<>>}
    ELSE UNION {LET heads == ASTsOfSize(k, rich)
                    tails == ASTForests(total - k, rich)
                IN  {<<t>> \o f : t \in heads, f \in tails} : k \in 1..total}

ASTs(max, rich) == UNION {ASTsOfSize(n, rich) : n \in 1..max}

\* the ASTs a Compiler that is used again is handed
ReuseASTs == ASTs(MaxReuseNodes, TRUE)

ASTUnset == [type |-> "Unset"]

(***************************************************************************)
(* State                                                                   *)
(***************************************************************************)
(***************************************************************************)
(* Pattern texts handed to parse: every concatenation of at most max       *)
(* tokens.  The core tokens are one char each; the form tokens are the     *)
(* group openers and the brace quantifiers.  The longest texts are drawn   *)
(* from the tokens of alternations and from those of quantified atoms.     *)
(***************************************************************************)
CoreTokens ==
    {<<"a">>, <<EAcute>>, <<"|">>, <<"(">>, <<")">>, <<"*">>, <<"+">>, <<"?">>,
     <<"[">>, <<"]">>, <<"\\">>}

\* the tokens of alternations and groups, and those of quantified atoms
AlternationTokens == {<<"a">>, <<EAcute>>, <<"|">>, <<"(">>, <<")">>}

QuantifierTokens ==
    {<<"a">>, <<"(">>, <<")">>, <<"[">>, <<"]">>, <<"\\">>, <<"*">>, <<"+">>, <<"?">>}

GroupOpeners ==
    {<<"(">>, <<"(", "?", ":">>, <<"(", "?", "=">>, <<"(", "?", "!">>,
     <<"(", "?", "<", "=">>, <<"(", "?", "<", "!">>, <<"(", "?", "<", "n", ">">>,
     <<"(", "?", ">">>}

BraceQuantifiers ==
    {<<"{", "2", "}">>, <<"{", "2", ",", "}">>, <<"{", "2", ",", "3", "}">>}

FormTokens == GroupOpeners \cup BraceQuantifiers

RECURSIVE Texts(_, _)
Texts(max, tokens) ==
    IF max = 0 THEN {<<>>}
    ELSE LET shorter == Texts(max - 1, tokens)
         IN  shorter \cup {t \o tok : t \in shorter, tok \in tokens}

VARIABLES
    node,           \* the IR tree a caller hands to normalize
    norm1,          \* normalize(node), Unset before the call
    norm2,          \* normalize(norm1), Unset before the call
    features_used,  \* Compiler.features_used
    ast,            \* the AST of the compiler call (its root_node argument)
    ir,             \* the IR the last compiler call returned
    metadata,       \* the features_used of the CompileResult last returned
    call,           \* the last call made on the Compiler
    text,           \* the pattern text a caller hands to parse
    parsed,         \* what parse(text) came to, NotParsed before the call
    err,            \* the STRlingParseError a caller holds
    lsp,            \* Some(err.to_lsp_diagnostic()), None before the call
    shown,          \* Some(err.to_formatted_string()), None before the call
    emitted,        \* what the call of emit came to, None before the call
    emitted_norm    \* what emit came to for norm1, None before the call

vars ==
    <<node, norm1, norm2, features_used, ast, ir, metadata, call, text, parsed,
      err, lsp, shown, emitted, emitted_norm>>

normVars == <<node, norm1, norm2, emitted_norm>>
compilerVars == <<features_used, ast, ir, metadata, call>>
parserVars == <<text, parsed>>

NotParsed == [st |-> "NotParsed"]
ParserIdle == text = <<>> /\ parsed = NotParsed

diagVars == <<err, lsp, shown>>
DiagIdle == err = NoError /\ lsp = None /\ shown = None

NormIdle == node = Unset /\ norm1 = Unset /\ norm2 = Unset /\ emitted_norm = None
\* Compiler::new()
CompilerNew ==
    /\ features_used = {}
    /\ ir = Unset
    /\ metadata = {}
    /\ call = "new"

(***************************************************************************)
(* SpecNorm: normalize applied to an IR tree, and to its own result        *)
(***************************************************************************)
InitNorm ==
    /\ node \in IRTrees(MaxIRNodes)
    /\ norm1 = Unset
    /\ norm2 = Unset
    /\ emitted_norm = None
    /\ CompilerNew
    /\ ast = ASTUnset
    /\ ParserIdle
    /\ DiagIdle
    /\ emitted = None

Normalize ==
    /\ node # Unset
    /\ norm1 = Unset
    /\ norm1' = normalize(node)
    /\ UNCHANGED <<node, norm2, emitted_norm, compilerVars, parserVars, diagVars, emitted>>

NormalizeAgain ==
    /\ norm1 # Unset
    /\ norm2 = Unset
    /\ norm2' = normalize(norm1)
    /\ UNCHANGED <<node, norm1, emitted_norm, compilerVars, parserVars, diagVars, emitted>>

NextNorm == Normalize \/ NormalizeAgain

SpecNorm == InitNorm /\ [][NextNorm]_vars

(***************************************************************************)
(* The two entry points of the Compiler                                    *)
(***************************************************************************)
CompileWithMetadata(root_node) ==
    LET ir_root == normalize(lower(root_node))
        found == features_used \cup analyze_features(ir_root)
    IN  /\ features_used' = found
        /\ ast' = root_node
        /\ ir' = ir_root
        /\ metadata' = found
        /\ call' = "compile_with_metadata"
        /\ UNCHANGED <<normVars, parserVars, diagVars, emitted>>

Compile(root) ==
    /\ ast' = root
    /\ ir' = normalize(lower(root))
    /\ metadata' = {}
    /\ call' = "compile"
    /\ UNCHANGED <<features_used, normVars, parserVars, diagVars, emitted>>

(***************************************************************************)
(* SpecCompile: one call on a fresh Compiler, for an AST the caller holds  *)
(***************************************************************************)
InitCompile ==
    /\ NormIdle
    /\ CompilerNew
    /\ ast \in ASTs(MaxASTNodes, FALSE) \cup ASTs(MaxFeatureNodes, TRUE)
    /\ ParserIdle
    /\ DiagIdle
    /\ emitted = None

CompileFresh == call = "new" /\ Compile(ast)
CompileWithMetadataFresh == call = "new" /\ CompileWithMetadata(ast)

NextCompile == CompileFresh \/ CompileWithMetadataFresh

SpecCompile == InitCompile /\ [][NextCompile]_vars

(***************************************************************************)
(* SpecReuse: any number of calls on one Compiler instance                 *)
(***************************************************************************)
InitReuse ==
    /\ NormIdle
    /\ CompilerNew
    /\ ast = ASTUnset
    /\ ParserIdle
    /\ DiagIdle
    /\ emitted = None

CompileAny == \E root \in ReuseASTs : Compile(root)
CompileWithMetadataAny == \E root_node \in ReuseASTs : CompileWithMetadata(root_node)

NextReuse == CompileAny \/ CompileWithMetadataAny

SpecReuse == InitReuse /\ [][NextReuse]_vars

(***************************************************************************)
(* SpecParse: one call of parse on a pattern text                          *)
(***************************************************************************)
InitParse ==
    /\ NormIdle
    /\ CompilerNew
    /\ ast = ASTUnset
    /\ text \in Texts(MaxToks - 1, CoreTokens)
                \cup Texts(MaxToks, AlternationTokens)
                \cup Texts(MaxToks, QuantifierTokens)
                \cup Texts(MaxFormToks, CoreTokens \cup FormTokens)
    /\ parsed = NotParsed
    /\ DiagIdle
    /\ emitted = None

Parse ==
    /\ parsed = NotParsed
    /\ parsed' = parse(text)
    /\ UNCHANGED <<text, normVars, compilerVars, diagVars, emitted>>

NextParse == Parse

SpecParse == InitParse /\ [][NextParse]_vars

(***************************************************************************)
(* SpecFlags: parse of a "%flags" line followed by a pattern body          *)
(***************************************************************************)
FlagChars == {<<"i">>, <<"S">>, <<"x">>, <<"q">>, <<" ">>}

BodyChars == {<<"a">>, <<EAcute>>, <<"(">>, <<"#">>, <<"|">>}

FlagsLine(f) == FlagsDirective \o f \o <<"\n">>

InitFlags ==
    /\ NormIdle
    /\ CompilerNew
    /\ ast = ASTUnset
    /\ \E f \in Texts(MaxFlagChars, FlagChars) : \E body \in Texts(MaxBodyChars, BodyChars) :
           text = FlagsLine(f) \o body
    /\ parsed = NotParsed
    /\ DiagIdle
    /\ emitted = None

SpecFlags == InitFlags /\ [][NextParse]_vars

(***************************************************************************)
(* SpecNames: parse of pattern texts of named groups                       *)
(***************************************************************************)
NameTokens ==
    {<<"(", "?", "<", "n", ">">>, <<"(", "?", "<", "m", ">">>, <<")">>, <<"a">>}

InitNames ==
    /\ NormIdle
    /\ CompilerNew
    /\ ast = ASTUnset
    /\ text \in Texts(MaxNameToks, NameTokens)
    /\ parsed = NotParsed
    /\ DiagIdle
    /\ emitted = None

SpecNames == InitNames /\ [][NextParse]_vars

(***************************************************************************)
(* SpecEmit: the emitter on trees that hold a Quant                        *)
(***************************************************************************)
QuantChildren ==
    {IRLit(<<"a">>), IRDot, IRAnchor("Start"), IRGroup(TRUE, None, FALSE, IRLit(<<"a", "*">>))}

QuantMaxes(most) == {IRInfinite} \cup {IRFinite(n) : n \in 0..most}

QuantModes == {"Greedy", "Lazy", "Possessive"}

Quants(children, most) ==
    {IRQuant(c, min, max, mode) :
        c \in children, min \in 0..most, max \in QuantMaxes(most), mode \in QuantModes}

\* chars of class items: the four the emitter escapes in a class, the five
\* control chars, and chars escaped only outside a class
ClassChars == {"a", ".", "]", "\\", "^", "-", "\n", "\r", "\t", "\f", VT}

ClassEscapes == {"Digit", "NotDigit", "Word", "NotWord", "Space", "NotSpace", "d"}

ClassItems ==
    {IRClassChar(<<c>>) : c \in ClassChars}
    \cup {IRClassRange(<<"a">>, <<c>>) : c \in {"z", "-", "\f"}}
    \cup {IRClassEsc(e, None) : e \in ClassEscapes}

\* classes of one item, and of two literal items
CharClasses ==
    {IRCharClass(negated, <<i>>) : negated \in BOOLEAN, i \in ClassItems}
    \cup {IRCharClass(negated, <<IRClassChar(<<c>>), IRClassChar(<<d>>)>>) :
            negated \in BOOLEAN, c \in ClassChars, d \in {"a", "]", VT}}

EmitTrees(most) ==
    Quants(QuantChildren, most)
    \cup CharClasses
    \cup {IRSeq(<<q, IRLit(<<"?">>)>>) : q \in Quants({IRDot}, most)}
    \cup Quants({IRGroup(FALSE, None, FALSE, q) : q \in Quants({IRLit(<<"a">>)}, 1)}, 1)

InitEmit ==
    /\ node \in EmitTrees(MaxRepeat)
    /\ norm1 = Unset
    /\ norm2 = Unset
    /\ emitted_norm = None
    /\ CompilerNew
    /\ ast = ASTUnset
    /\ ParserIdle
    /\ DiagIdle
    /\ emitted = None

Emit ==
    /\ node # Unset
    /\ emitted = None
    /\ emitted' = EmitOutcome(node)
    /\ UNCHANGED <<normVars, compilerVars, parserVars, diagVars>>

NextEmit == Emit

SpecEmit == InitEmit /\ [][NextEmit]_vars

(***************************************************************************)
(* SpecPipe: parse, compile_with_metadata on a new Compiler, emit, as in   *)
(* examples/demo.rs                                                        *)
(***************************************************************************)
PipeTokens ==
    {<<"a">>, <<EAcute>>, <<".">>, <<"^">>, <<"$">>, <<"|">>, <<"(">>, <<")">>,
     <<"*">>, <<"+">>, <<"?">>}

PipeFormTokens ==
    {<<"a">>, <<")">>, <<"$">>, <<"*">>, <<"\\", "w">>, <<"\\", "1">>,
     <<"(", "?", ":">>, <<"(", "?", "=">>, <<"(", "?", "!">>,
     <<"(", "?", "<", "=">>, <<"(", "?", "<", "!">>, <<"(", "?", "<", "n", ">">>}

InitPipe ==
    /\ NormIdle
    /\ CompilerNew
    /\ ast = ASTUnset
    /\ text \in Texts(MaxPipeToks, PipeTokens) \cup Texts(MaxPipeToks, PipeFormTokens)
    /\ parsed = NotParsed
    /\ DiagIdle
    /\ emitted = None

\* `let (flags, ast) = parse(..).unwrap(); compiler.compile_with_metadata(&ast)`
CompileParsed ==
    /\ parsed.st = "Ok"
    /\ call = "new"
    /\ CompileWithMetadata(parsed.node)

\* `emitter.emit(&result.ir)`
EmitCompiled ==
    /\ call # "new"
    /\ emitted = None
    /\ emitted' = EmitOutcome(ir)
    /\ UNCHANGED <<normVars, compilerVars, parserVars, diagVars>>

NextPipe == Parse \/ CompileParsed \/ EmitCompiled

SpecPipe == InitPipe /\ [][NextPipe]_vars

(***************************************************************************)
(* SpecBuilt: compile and emit of an AST the caller built                  *)
(***************************************************************************)
QuantTargets ==
    {Literal(<<"a">>), Literal(<<"a", "b">>), Dot,
     Sequence(<<Dot, Literal(<<"a">>)>>),
     Sequence(<<Literal(<<"a">>), Literal(<<"b">>)>>),
     Alternation(<<Literal(<<"a">>), Literal(<<"b">>)>>),
     Group(FALSE, None, Some(FALSE), Literal(<<"a", "b">>))}

BuiltASTs ==
    ASTs(MaxBuiltNodes, FALSE)
    \cup {Quantifier(c, min, max, mode) :
            c \in QuantTargets, min \in 0..1, max \in {Infinite, Finite(2)},
            mode \in QuantModes}

InitBuilt ==
    /\ NormIdle
    /\ CompilerNew
    /\ ast \in BuiltASTs
    /\ ParserIdle
    /\ DiagIdle
    /\ emitted = None

NextBuilt == CompileFresh \/ CompileWithMetadataFresh \/ EmitCompiled

SpecBuilt == InitBuilt /\ [][NextBuilt]_vars

(***************************************************************************)
(* SpecSpacing: parse of a body of literals, whitespace, comments and      *)
(* classes, with and without the x flag                                    *)
(***************************************************************************)
SpacingChars == {<<"a">>, <<" ">>, <<"#">>, <<"\n">>, <<"[">>, <<"]">>}

ExtendedLine == <<"%", "f", "l", "a", "g", "s", " ", "x", "\n">>

InitSpacing ==
    /\ NormIdle
    /\ CompilerNew
    /\ ast = ASTUnset
    /\ \E head \in {<<>>, ExtendedLine}, body \in Texts(MaxSpacingChars, SpacingChars) :
          text = head \o body
    /\ parsed = NotParsed
    /\ DiagIdle
    /\ emitted = None

SpecSpacing == InitSpacing /\ [][NextParse]_vars

(***************************************************************************)
(* SpecLoops: the loops of the parser, one turn at a time.  A caller       *)
(* hands text to parse; the first run of each loop that parse comes to at  *)
(* the start of the pattern is followed turn by turn: parsed holds the     *)
(* loop, the parser at the head of the loop and what the loop has          *)
(* collected, and then the parser with which the loop was left.  Calls     *)
(* made within a turn (parse_atom, parse_seq) are taken as a whole.        *)
(***************************************************************************)
LoopAt(loop, p, acc) == [st |-> "Loop", loop |-> loop, p |-> p, acc |-> acc]
LoopLeft(loop, p, acc) == [st |-> "Left", loop |-> loop, p |-> p, acc |-> acc]

\* one turn of skip_ws_and_comments with the cursor left in place at a
\* whitespace char
SkipTurn_stay(p) ==
    IF eof(p.cur) THEN LoopLeft("skip", p, <<>>)
    ELSE LET ch == peek_char(p.cur, 0)
         IN  IF ch \in {" ", "\t", "\r", "\n"} THEN LoopAt("skip", p, <<>>)
             ELSE IF ch = "#" THEN LoopAt("skip", [p EXCEPT !.cur = SkipComment(@)], <<>>)
             ELSE LoopLeft("skip", p, <<>>)
\* one turn of `while !self.eof()` in skip_ws_and_comments
SkipTurn(p) ==
    IF eof(p.cur) THEN LoopLeft("skip", p, <<>>)
    ELSE LET ch == peek_char(p.cur, 0)
         IN  IF ch \in {" ", "\t", "\r", "\n"}
             THEN LoopAt("skip", [p EXCEPT !.cur.i = @ + 1], <<>>)
             ELSE IF ch = "#" THEN LoopAt("skip", [p EXCEPT !.cur = SkipComment(@)], <<>>)
             ELSE LoopLeft("skip", p, <<>>)

\* one turn of `loop` in parse_char_class
ClassTurn(p, items) ==
    IF eof(p.cur) THEN LoopLeft("class", p, items)
    ELSE IF peek_char(p.cur, 0) = "]" THEN LoopLeft("class", Taken(p), items)
    ELSE LET t == take(p.cur)
         IN  IF t.ch = NoChar THEN LoopLeft("class", [p EXCEPT !.cur = t.cur], items)
             ELSE LoopAt("class", [p EXCEPT !.cur = t.cur],
                         Append(items, ClassChar(<<t.ch>>)))

\* one turn of `while let Some(ch) = self.cur.peek_char(0)` in parse_group_name
NameTurn(p, name) ==
    LET ch == peek_char(p.cur, 0)
    IN  IF ch = NoChar \/ ch = ">" THEN LoopLeft("name", p, name)
        ELSE IF is_alphanumeric(ch) \/ ch = "_"
        THEN LoopAt("name", Taken(p), Append(name, ch))
        ELSE LoopLeft("name", p, name)

\* one turn of `loop` in parse_seq
SeqQuantified(parts, atom, quant) ==
    LoopAt("seq", quant.p,
           Append(parts, IF quant.some
                         THEN Quantifier(atom.node, quant.min, quant.max, quant.mode)
                         ELSE atom.node))

SeqAtomTurn(parts, atom) ==
    IF atom.st # "Ok" THEN LoopLeft("seq", atom.p, parts)
    ELSE SeqQuantified(parts, atom, try_parse_quantifier(Skipped(atom.p)))

SeqTurnAt(p, parts) ==
    IF eof(p.cur) \/ peek_char(p.cur, 0) \in {"|", ")"} THEN LoopLeft("seq", p, parts)
    ELSE SeqAtomTurn(parts, parse_atom(p))

SeqLoopTurn(p, parts) == SeqTurnAt(Skipped(p), parts)

\* one turn of `while let Some('|') = self.cur.peek_char(0)` in parse_alt
AltBranchTurn(branches, seq) ==
    IF seq.st # "Ok" THEN LoopLeft("alt", seq.p, branches)
    ELSE LoopAt("alt", Skipped(seq.p), Append(branches, seq.node))

AltTurnAt(p, branches) ==
    IF eof(p.cur) \/ peek_char(p.cur, 0) = "|" THEN LoopLeft("alt", p, branches)
    ELSE AltBranchTurn(branches, parse_seq(p))

AltLoopTurn(p, branches) ==
    IF peek_char(p.cur, 0) # "|" THEN LoopLeft("alt", p, branches)
    ELSE AltTurnAt(Skipped(Taken(p)), branches)

LoopTokens ==
    {<<"a">>, <<EAcute>>, <<" ">>, <<"#">>, <<"\n">>, <<"|">>, <<"(">>, <<")">>,
     <<"[">>, <<"]">>, <<"(", "?", "<">>}

InitLoops ==
    /\ NormIdle
    /\ CompilerNew
    /\ ast = ASTUnset
    /\ \E head \in {<<>>, ExtendedLine}, body \in Texts(MaxLoopToks, LoopTokens) :
          text = head \o body
    /\ parsed = NotParsed
    /\ DiagIdle
    /\ emitted = None

\* the parser parse(text) makes, at the start of Parser::parse
ParserOf(t) == Parser_new(parse_directives(t))

LoopIdle == parsed = NotParsed /\ parse_directives(text).ok

\* parse_alt calls skip_ws_and_comments, which comes to its loop
EnterSkip ==
    /\ LoopIdle
    /\ ParserOf(text).cur.extended_mode
    /\ parsed' = LoopAt("skip", ParserOf(text), <<>>)
    /\ UNCHANGED <<text, normVars, compilerVars, diagVars, emitted>>

\* parse_alt calls parse_seq for its first branch
EnterSeq ==
    /\ LoopIdle
    /\ peek_char(Skipped(ParserOf(text)).cur, 0) # "|"
    /\ parsed' = LoopAt("seq", Skipped(ParserOf(text)), <<>>)
    /\ UNCHANGED <<text, normVars, compilerVars, diagVars, emitted>>

\* parse_alt comes to its while loop once the first branch is parsed
EnterAlt ==
    /\ LoopIdle
    /\ peek_char(Skipped(ParserOf(text)).cur, 0) # "|"
    /\ LET first == parse_seq(Skipped(ParserOf(text)))
       IN  /\ first.st = "Ok"
           /\ parsed' = LoopAt("alt", Skipped(first.p), <<first.node>>)
    /\ UNCHANGED <<text, normVars, compilerVars, diagVars, emitted>>

\* the pattern starts with '[': parse_atom calls parse_char_class
EnterClass ==
    /\ LoopIdle
    /\ LET p == Skipped(ParserOf(text))
           p1 == [Taken(p) EXCEPT !.cur.in_class = @ + 1]
       IN  /\ ~eof(p.cur)
           /\ peek_char(p.cur, 0) = "["
           /\ parsed' = LoopAt("class", IF peek_char(p1.cur, 0) = "^" THEN Taken(p1) ELSE p1,
                               <<>>)
    /\ UNCHANGED <<text, normVars, compilerVars, diagVars, emitted>>

\* the pattern starts with "(?<" and no '=' or '!' follows: parse_group
\* calls parse_group_name
EnterName ==
    /\ LoopIdle
    /\ LET p == Skipped(ParserOf(text))
           p3 == Taken(Taken(Taken(p)))
       IN  /\ ~eof(p.cur)
           /\ peek_char(p.cur, 0) = "("
           /\ peek_char(p.cur, 1) = "?"
           /\ peek_char(p.cur, 2) = "<"
           /\ peek_char(p3.cur, 0) \notin {NoChar, "=", "!"}
           /\ parsed' = LoopAt("name", p3, <<>>)
    /\ UNCHANGED <<text, normVars, compilerVars, diagVars, emitted>>

\* the turn the loop at l takes next
LoopTurnOf(l) ==
    CASE l.loop = "skip" -> SkipTurn(l.p)
      [] l.loop = "class" -> ClassTurn(l.p, l.acc)
      [] l.loop = "name" -> NameTurn(l.p, l.acc)
      [] l.loop = "seq" -> SeqLoopTurn(l.p, l.acc)
      [] l.loop = "alt" -> AltLoopTurn(l.p, l.acc)

TurnSkip ==
    /\ parsed.st = "Loop"
    /\ parsed.loop = "skip"
    /\ parsed' = LoopTurnOf(parsed)
    /\ UNCHANGED <<text, normVars, compilerVars, diagVars, emitted>>

TurnClass ==
    /\ parsed.st = "Loop"
    /\ parsed.loop = "class"
    /\ parsed' = LoopTurnOf(parsed)
    /\ UNCHANGED <<text, normVars, compilerVars, diagVars, emitted>>

TurnName ==
    /\ parsed.st = "Loop"
    /\ parsed.loop = "name"
    /\ parsed' = LoopTurnOf(parsed)
    /\ UNCHANGED <<text, normVars, compilerVars, diagVars, emitted>>

TurnSeq ==
    /\ parsed.st = "Loop"
    /\ parsed.loop = "seq"
    /\ parsed' = LoopTurnOf(parsed)
    /\ UNCHANGED <<text, normVars, compilerVars, diagVars, emitted>>

TurnAlt ==
    /\ parsed.st = "Loop"
    /\ parsed.loop = "alt"
    /\ parsed' = LoopTurnOf(parsed)
    /\ UNCHANGED <<text, normVars, compilerVars, diagVars, emitted>>

NextLoops ==
    \/ EnterSkip \/ EnterSeq \/ EnterAlt \/ EnterClass \/ EnterName
    \/ TurnSkip \/ TurnClass \/ TurnName \/ TurnSeq \/ TurnAlt

SpecLoops == InitLoops /\ [][NextLoops]_vars

(***************************************************************************)
(* SpecNormEmit: emit of an IR tree and of the tree normalize makes of it  *)
(***************************************************************************)
EmitNormalized ==
    /\ norm1 # Unset
    /\ emitted_norm = None
    /\ emitted_norm' = EmitOutcome(norm1)
    /\ UNCHANGED <<node, norm1, norm2, compilerVars, parserVars, diagVars, emitted>>

NextNormEmit == Normalize \/ Emit \/ EmitNormalized

SpecNormEmit == InitNorm /\ [][NextNormEmit]_vars

(***************************************************************************)
(* SpecLit: emit of a literal, then parse and compile of the emitted text  *)
(***************************************************************************)
\* str::chars of an emitted text (a char of the form U+XXXX is one char)
RECURSIVE CharsFrom(_, _)
CharsFrom(str, k) ==
    IF k > Len(str) THEN <<>>
    ELSE IF k + 5 <= Len(str) /\ SubSeq(str, k, k + 1) = "U+"
    THEN <<SubSeq(str, k, k + 5)>> \o CharsFrom(str, k + 6)
    ELSE <<SubSeq(str, k, k)>> \o CharsFrom(str, k + 1)

str_chars(str) == CharsFrom(str, 1)

LitChars == {<<"a">>, <<EAcute>>, <<"%">>, <<"#">>, <<" ">>, <<"*">>, <<"\\">>, <<"\n">>, <<"\f">>}

InitLit ==
    /\ node \in {IRLit(s) : s \in Texts(MaxLitChars, LitChars)}
    /\ norm1 = Unset
    /\ norm2 = Unset
    /\ emitted_norm = None
    /\ CompilerNew
    /\ ast = ASTUnset
    /\ ParserIdle
    /\ DiagIdle
    /\ emitted = None

\* parse(&text) for the text emit returned
ParseEmitted ==
    /\ is_some(emitted)
    /\ parsed = NotParsed
    /\ text' = str_chars(emitted[1])
    /\ parsed' = parse(str_chars(emitted[1]))
    /\ UNCHANGED <<normVars, compilerVars, diagVars, emitted>>

NextLit == Emit \/ ParseEmitted \/ CompileParsed

SpecLit == InitLit /\ [][NextLit]_vars

(***************************************************************************)
(* SpecDiag: the two renderings of an error a caller holds                 *)
(***************************************************************************)
ErrorTexts(max) == UNION {[1..n -> {"a", "b", "\n"}] : n \in 0..max}

\* the messages the parser raises (with c for the offending char)
ParserMessages ==
    {"Unmatched ')'", "Alternation lacks left-hand side", "Alternation lacks right-hand side",
     "Empty alternation branch", "Unexpected trailing input", "Unexpected end of input",
     "Incomplete escape sequence", "Unterminated group", "Unterminated lookahead",
     "Unterminated lookbehind", "Unterminated atomic group", "Unterminated group name",
     "Unknown group modifier: ?c", "Invalid character in group name: c", "Empty group name",
     "Unterminated character class", "Empty character class"}

\* and the two messages of the tests of the hint engine
ErrorMessages == ParserMessages \cup {"Invalid flag 'z'", "Some unknown error"}

InitDiag ==
    /\ NormIdle
    /\ CompilerNew
    /\ ast = ASTUnset
    /\ ParserIdle
    /\ emitted = None
    /\ \E t \in ErrorTexts(MaxErrorText) : \E pos \in 0..Len(t) :
       \E message \in ErrorMessages :
           err = STRlingParseError(message, pos, t, get_hint(message, t, pos))
    /\ lsp = None
    /\ shown = None

ToLspDiagnostic ==
    /\ lsp = None
    /\ lsp' = Some(to_lsp_diagnostic(err))
    /\ UNCHANGED <<err, shown, normVars, compilerVars, parserVars, emitted>>

ToFormattedString ==
    /\ shown = None
    /\ shown' = Some(format_error(err))
    /\ UNCHANGED <<err, lsp, normVars, compilerVars, parserVars, emitted>>

NextDiag == ToLspDiagnostic \/ ToFormattedString

SpecDiag == InitDiag /\ [][NextDiag]_vars

(***************************************************************************)
(* Properties                                                              *)
(***************************************************************************)
RECURSIVE IRSubtrees(_)
IRSubtrees(n) ==
    {n} \cup
    CASE n.ir = "Seq" -> UNION {IRSubtrees(n.parts[i]) : i \in DOMAIN n.parts}
      [] n.ir = "Alt" -> UNION {IRSubtrees(n.branches[i]) : i \in DOMAIN n.branches}
      [] n.ir = "Quant" -> IRSubtrees(n.child)
      [] n.ir \in {"Group", "Look"} -> IRSubtrees(n.body)
      [] OTHER -> {}

RECURSIVE ASTSubtrees(_)
ASTSubtrees(n) ==
    {n} \cup
    CASE n.type = "Sequence" -> UNION {ASTSubtrees(n.parts[i]) : i \in DOMAIN n.parts}
      [] n.type = "Alternation" ->
            UNION {ASTSubtrees(n.branches[i]) : i \in DOMAIN n.branches}
      [] n.type = "Quantifier" -> ASTSubtrees(n.child)
      [] n.type \in {"Group", "Lookahead", "NegativeLookahead", "Lookbehind",
                     "NegativeLookbehind"} -> ASTSubtrees(n.body)
      [] OTHER -> {}

Compiled == call \in {"compile", "compile_with_metadata"}

\* C1: normalizing a normalized tree gives the same tree:
\* normalize(normalize(x)) = normalize(x) for every IR tree x
C1_Idempotent == norm2 # Unset => norm2 = norm1

\* a tree with nested sequences and literals whose normal form differs from it
C1_Witness ==
    /\ norm2 # Unset
    /\ norm1 # node
    /\ \E s \in IRSubtrees(node) :
          s.ir = "Seq" /\ \E i \in DOMAIN s.parts : s.parts[i].ir \in {"Seq", "Quant"}

SeqIsCanonical(s) ==
    /\ \A i \in DOMAIN s.parts : s.parts[i].ir # "Seq"
    /\ \A i \in 1..(Len(s.parts) - 1) :
          ~(s.parts[i].ir = "Lit" /\ s.parts[i + 1].ir = "Lit")
    /\ Len(s.parts) # 1

\* C2: in the IR a compile call returns, no Seq at any depth has a Seq child,
\* two adjacent Lit children, or exactly one child
C2_SeqCanonical ==
    Compiled => \A s \in IRSubtrees(ir) : s.ir = "Seq" => SeqIsCanonical(s)

\* the AST nests a Sequence in a Sequence and the IR still has a Seq
C2_Witness ==
    /\ Compiled
    /\ \E a \in ASTSubtrees(ast) :
          /\ a.type = "Sequence"
          /\ \E i \in DOMAIN a.parts : a.parts[i].type = "Sequence"
    /\ \E s \in IRSubtrees(ir) : s.ir = "Seq" /\ Len(s.parts) >= 2

RECURSIVE ConcatValues(_)
ConcatValues(parts) ==
    IF parts = <<>> THEN <<>> ELSE Head(parts).value \o ConcatValues(Tail(parts))

OnlySingleCharLiterals(a) ==
    /\ a.type = "Sequence"
    /\ Len(a.parts) >= 1
    /\ \A i \in DOMAIN a.parts :
          a.parts[i].type = "Literal" /\ Len(a.parts[i].value) = 1

\* C3: a Sequence of N >= 1 single-character Literals compiles to one Lit
\* holding the N characters in order
C3_Coalesced ==
    (Compiled /\ OnlySingleCharLiterals(ast)) => ir = IRLit(ConcatValues(ast.parts))

\* three literals, not all the same character
C3_Witness ==
    /\ Compiled
    /\ OnlySingleCharLiterals(ast)
    /\ Len(ast.parts) = 3
    /\ ast.parts[1].value # ast.parts[3].value
    /\ ir.ir = "Lit"

ASTHasFeature(a, f) ==
    \E n \in ASTSubtrees(a) :
        CASE f = "named_group" ->
                n.type = "Group" /\ is_some(n.name) /\ n.name[1] # <<>>
          [] f = "atomic_group" -> n.type = "Group" /\ n.atomic = Some(TRUE)
          [] f = "possessive_quantifier" -> n.type = "Quantifier" /\ n.possessive
          [] f = "lookahead" -> n.type \in {"Lookahead", "NegativeLookahead"}
          [] f = "lookbehind" -> n.type \in {"Lookbehind", "NegativeLookbehind"}
          [] f = "backreference" -> n.type = "Backreference"
          [] f = "unicode_property" ->
                /\ n.type = "CharacterClass"
                /\ \E i \in DOMAIN n.items :
                      \/ n.items[i].type = "UnicodeProperty"
                      \/ n.items[i].type = "Esc" /\ n.items[i].escape_type \in {"p", "P"}

Features ==
    {"named_group", "atomic_group", "possessive_quantifier", "lookahead", "lookbehind",
     "backreference", "unicode_property"}

\* C4: on a fresh Compiler, compile_with_metadata reports a feature iff the
\* AST contains its construct; named_group iff a Group has a non-empty name
C4_FeaturesIffConstruct ==
    call = "compile_with_metadata" =>
        \A f \in Features : (f \in metadata) <=> ASTHasFeature(ast, f)

\* C5: a call on a Compiler that was used before returns the IR and the
\* features a fresh Compiler returns for the same AST
C5_NoCrossCallState ==
    call = "compile_with_metadata" =>
        /\ ir = compile(ast)
        /\ metadata = analyze_features(compile(ast))
Parsed == parsed # NotParsed

\* a non-empty run of literal chars drawn from chars
LiteralRun(s, chars) == s # <<>> /\ \A k \in DOMAIN s : s[k] \in chars

\* the texts  opener lits tail  with opener a group opener or nothing and lits
\* a run of literal chars, possibly empty
OpensWith(opener, lits, tail, chars) ==
    /\ opener \in GroupOpeners \cup {<<>>}
    /\ lits = <<>> \/ LiteralRun(lits, chars)
    /\ text = opener \o lits \o tail

IsError(message, pos) ==
    parsed.st = "Err" /\ parsed.err.message = message /\ parsed.err.pos = pos

Prefixes(s) == {SubSeq(s, 1, k) : k \in 0..Len(s)}

\* C6: parse returns Ok or Err for every text and never panics, texts with a
\* char of more than one byte included
C6_NeverPanics == Parsed => parsed.st \in {"Ok", "Err"}

\* C7: a "|" at the start of an alternation (of the pattern or of a group
\* body) is reported as "Alternation lacks left-hand side", a "|" after a
\* branch and right before the end of input as "Alternation lacks right-hand
\* side", and a "|" after a branch and right before another "|" as "Empty
\* alternation branch", each at the offset of that "|"
C7_AlternationErrors ==
    Parsed =>
        \A opener \in Prefixes(text) : \A lits \in Prefixes(SubSeq(text, Len(opener) + 1, Len(text))) :
            LET at == Len(opener) + Len(lits)
                tail == SubSeq(text, at + 1, Len(text))
            IN  OpensWith(opener, lits, tail, {"a", EAcute}) =>
                    /\ (lits = <<>> /\ tail # <<>> /\ Head(tail) = "|")
                           => IsError("Alternation lacks left-hand side", at)
                    /\ (lits # <<>> /\ tail = <<"|">>)
                           => IsError("Alternation lacks right-hand side", at)
                    /\ (lits # <<>> /\ Len(tail) >= 2 /\ tail[1] = "|" /\ tail[2] = "|")
                           => IsError("Empty alternation branch", at)

\* the top-level parse_alt of the call, and the cursor after the skip
TopAlt == parse_alt(Parser_new(parse_directives(text)))
AfterTopAlt == Skipped(TopAlt.p).cur

\* C8: parse returns Ok only when one top-level alternation has consumed the
\* whole source, and when input remains after it with ")" as the next char
\* the result is the error "Unmatched ')'" at the offset of that ")"
C8_ConsumedOrUnmatched ==
    Parsed =>
        /\ parsed.st = "Ok" =>
               /\ TopAlt.st = "Ok" /\ parsed.node = TopAlt.node
               /\ parsed.p.cur.i >= Len(parsed.p.src)
        /\ (TopAlt.st = "Ok" /\ ~eof(AfterTopAlt) /\ peek_char(AfterTopAlt, 0) = ")") =>
               /\ IsError("Unmatched ')'", AfterTopAlt.i)
               /\ parsed.err.hint = Some(UnmatchedParenHint)
               /\ parsed.p.src[parsed.err.pos + 1] = ")"
        /\ \A lits \in Prefixes(text) :
               (LiteralRun(lits, {"a", EAcute}) /\ Len(text) > Len(lits)
                    /\ text[Len(lits) + 1] = ")")
               => IsError("Unmatched ')'", Len(lits))

\* a ")" is left over after a closed group: the text "(a))"
C8_Witness ==
    /\ text = <<"(", "a", ")", ")">>
    /\ IsError("Unmatched ')'", 3)

UnterminatedMessages ==
    {"Unterminated group", "Unterminated lookahead", "Unterminated lookbehind",
     "Unterminated atomic group"}

\* C9: when the ")" of a group is missing, whichever of the eight group forms
\* opened it, parse returns an "Unterminated ..." error whose position is
\* the offset of the opening "("
C9_UnterminatedAtOpener ==
    Parsed =>
        \A lits \in Prefixes(text) : \A opener \in GroupOpeners :
            LET at == Len(lits)
                body == SubSeq(text, at + Len(opener) + 1, Len(text))
            IN  (/\ lits = <<>> \/ LiteralRun(lits, {"a"})
                 /\ body = <<>> \/ LiteralRun(body, {"a"})
                 /\ text = lits \o opener \o body)
                => /\ parsed.st = "Err"
                   /\ parsed.err.message \in UnterminatedMessages
                   /\ parsed.err.pos = at

\* the bounds a brace quantifier spells out
BraceBounds(brace) ==
    CASE brace = <<"{", "2", "}">> -> [min |-> 2, max |-> Finite(2)]
      [] brace = <<"{", "2", ",", "}">> -> [min |-> 2, max |-> Infinite]
      [] brace = <<"{", "2", ",", "3", "}">> -> [min |-> 2, max |-> Finite(3)]

\* C10: an atom followed by {m}, {m,} or {m,n} parses to a Quantifier node
\* over that atom with the bounds the braces spell out
C10_BraceQuantifier ==
    Parsed =>
        \A brace \in BraceQuantifiers :
            text = <<"a">> \o brace
            => /\ parsed.st = "Ok"
               /\ parsed.node.type = "Quantifier"
               /\ parsed.node.child = Literal(<<"a">>)
               /\ parsed.node.min = BraceBounds(brace).min
               /\ parsed.node.max = BraceBounds(brace).max

\* the texts of one atom the quantifier claims range over
AtomTexts == {<<"a">>, <<"[", "a", "]">>, <<"(", "a", ")">>, <<"\\", "a">>}

\* the bounds each quantifier char stands for
QuantBounds(q) ==
    CASE q = "*" -> [min |-> 0, max |-> Infinite]
      [] q = "+" -> [min |-> 1, max |-> Infinite]
      [] q = "?" -> [min |-> 0, max |-> Finite(1)]

SuffixMode(suffix) ==
    CASE suffix = <<"?">> -> "Lazy" [] suffix = <<"+">> -> "Possessive" [] OTHER -> "Greedy"

\* exactly one of greedy, lazy, possessive is true, the one mode names
ModeFlagsAgree(n) ==
    /\ n.mode \in {"Greedy", "Lazy", "Possessive"}
    /\ n.greedy <=> n.mode = "Greedy"
    /\ n.lazy <=> n.mode = "Lazy"
    /\ n.possessive <=> n.mode = "Possessive"

C12_HintAttached ==
    (Parsed /\ parsed.st = "Err") =>
        LET hint == get_hint(parsed.err.message, parsed.err.text, parsed.err.pos)
        IN  is_some(hint) => parsed.err.hint = hint

(***************************************************************************)
(* The renderings of an error (SpecDiag)                                   *)
(***************************************************************************)
\* the number of "\n" among the first pos chars of t: the 0-indexed number of
\* the line that contains offset pos
LineOf(t, pos) == Cardinality({k \in 1..pos : t[k] = "\n"})

\* the offset at which the line that contains offset pos starts
LineStart(t, pos) ==
    IF LineOf(t, pos) = 0 THEN 0
    ELSE CHOOSE k \in 1..pos : t[k] = "\n" /\ \A j \in (k + 1)..pos : t[j] # "\n"

\* the offset at which the line that contains offset pos ends
LineEnd(t, pos) ==
    IF \A k \in (pos + 1)..Len(t) : t[k] # "\n" THEN Len(t)
    ELSE (CHOOSE k \in (pos + 1)..Len(t) :
              t[k] = "\n" /\ \A j \in (pos + 1)..(k - 1) : t[j] # "\n") - 1

LineText(t, pos) == SubSeq(t, LineStart(t, pos) + 1, LineEnd(t, pos))

\* pos addresses a char of the text
PosAtChar(e) == e # NoError /\ e.pos < Len(e.text)

\* C13: for every error whose pos addresses a char of its text,
\* to_lsp_diagnostic gives range.start = (0-indexed number of the line that
\* contains pos, column of pos within that line), range.end = the same line
\* one character further, severity 1 and source "STRling".
C13_LspRange ==
    (PosAtChar(err) /\ lsp # None) =>
        /\ lsp[1].range.start =
               [line |-> LineOf(err.text, err.pos),
                character |-> err.pos - LineStart(err.text, err.pos)]
        /\ lsp[1].range.end =
               [line |-> LineOf(err.text, err.pos),
                character |-> err.pos - LineStart(err.text, err.pos) + 1]
        /\ lsp[1].severity = 1
        /\ lsp[1].source = "STRling"

\* C14: for every multi-line text and every pos that addresses a char of it,
\* the formatted string shows the 1-indexed number and the text of the line
\* that contains pos, with the caret in column pos minus that line's start,
\* also when that line is empty.
C14_ShowsContainingLine ==
    (PosAtChar(err) /\ shown # None /\ \E k \in 1..Len(err.text) : err.text[k] = "\n") =>
        shown[1] = FormatParts(err,
                       [line_num |-> LineOf(err.text, err.pos) + 1,
                        line_text |-> LineText(err.text, err.pos),
                        col |-> err.pos - LineStart(err.text, err.pos)])

(***************************************************************************)
(* Directive lines (SpecFlags)                                             *)
(***************************************************************************)
\* the chars between "%flags" and the end of the first line of the text
FlagsOf(t) ==
    SubSeq(t, Len(FlagsDirective) + 1,
           (CHOOSE k \in 1..Len(t) : t[k] = "\n" /\ \A j \in 1..(k - 1) : t[j] # "\n") - 1)

\* the text under the first line
BodyOf(t) == SubSeq(t, Len(FlagsDirective) + Len(FlagsOf(t)) + 2, Len(t))

\* C15: every error parse returns carries the pattern text with the directive
\* lines stripped, not the raw input, and a pos between 0 and the length of
\* that text, counted in chars as the cursor counts the pos.
C15_ErrorTextAndPos ==
    (Parsed /\ parsed.st = "Err") =>
        /\ parsed.err.text = parse_directives(text).src
        /\ parsed.err.text # text
        /\ 0 <= parsed.err.pos
        /\ parsed.err.pos <= Len(parsed.err.text)

\* some char of f is the letter small or its upper-case form capital
HasLetter(f, small, capital) == \E k \in DOMAIN f : f[k] \in {small, capital}

\* C16: after a leading "%flags" line the Flags hold exactly the flags whose
\* letters i, m, s, u, x appear on the line in either case, and the pattern
\* body that is parsed is the one under the line: separators and unrecognized
\* letters set no flag and add nothing to it.
C16_FlagsLine ==
    Parsed =>
        /\ parsed.p.flags =
               [ignore_case |-> HasLetter(FlagsOf(text), "i", "I"),
                multiline |-> HasLetter(FlagsOf(text), "m", "M"),
                dot_all |-> HasLetter(FlagsOf(text), "s", "S"),
                unicode |-> HasLetter(FlagsOf(text), "u", "U"),
                extended |-> HasLetter(FlagsOf(text), "x", "X")]
        /\ parsed.p.src = parse_directives(BodyOf(text)).src

\* what the claim compares of two results of parse: the AST, or the message
\* and the position of the error
Outcome(r) ==
    [st |-> r.st, node |-> r.node,
     message |-> IF r.st = "Err" THEN r.err.message ELSE "",
     pos |-> IF r.st = "Err" THEN r.err.pos ELSE 0]

\* a flags line of recognized letters other than x, spaces allowed
NoExtendedFlags(f) ==
    /\ \A k \in DOMAIN f : f[k] \in {"i", "I", "m", "M", "s", "S", "u", "U", " "}
    /\ \E k \in DOMAIN f : f[k] # " "

\* C17: for every pattern body P and every flag-letter string F without x,
\* parse of the "%flags" line of F followed by P gives the AST, or the error
\* message and position, that parse(P) gives.
C17_FlagsKeepAst ==
    (Parsed /\ NoExtendedFlags(FlagsOf(text))) =>
        Outcome(parsed) = Outcome(parse(BodyOf(text)))

\* the body a|# parsed to an Alternation under the line "%flags i"
C17_Witness ==
    /\ Parsed
    /\ FlagsOf(text) = <<" ", "i">>
    /\ BodyOf(text) = <<"a", "|", "#">>
    /\ parsed.p.flags.ignore_case
    /\ parsed.st = "Ok"
    /\ parsed.node.type = "Alternation"

(***************************************************************************)
(* Group names (SpecNames)                                                 *)
(***************************************************************************)
\* the names of the named groups of an AST, one entry for each group, in the
\* order of their opening parentheses
RECURSIVE GroupNames(_), GroupNamesOfAll(_)
GroupNames(n) ==
    CASE n.type = "Sequence" -> GroupNamesOfAll(n.parts)
      [] n.type = "Alternation" -> GroupNamesOfAll(n.branches)
      [] n.type = "Quantifier" -> GroupNames(n.child)
      [] n.type = "Group" ->
            (IF is_some(n.name) THEN <<n.name[1]>> ELSE <<>>) \o GroupNames(n.body)
      [] n.type \in {"Lookahead", "NegativeLookahead", "Lookbehind", "NegativeLookbehind"} ->
            GroupNames(n.body)
      [] OTHER -> <<>>

GroupNamesOfAll(ns) ==
    IF ns = <<>> THEN <<>> ELSE GroupNames(Head(ns)) \o GroupNamesOfAll(Tail(ns))

\* C18: parse never returns Ok with an AST that holds two named groups of
\* the same name.
C18_UniqueGroupNames ==
    (Parsed /\ parsed.st = "Ok") =>
        \A j, k \in DOMAIN GroupNames(parsed.node) :
            j # k => GroupNames(parsed.node)[j] # GroupNames(parsed.node)[k]

(***************************************************************************)
(* The shape of the AST (SpecParse)                                        *)
(***************************************************************************)
\* C19: an AST parse returns has no Alternation of fewer than two branches
\* and no Sequence of fewer than two parts; the empty input and the empty
\* group body are a Literal of the empty string.
C19_NoDegenerateNodes ==
    (Parsed /\ parsed.st = "Ok") =>
        /\ \A n \in ASTSubtrees(parsed.node) :
               /\ n.type = "Alternation" => Len(n.branches) >= 2
               /\ n.type = "Sequence" => Len(n.parts) >= 2
        /\ text = <<>> => parsed.node = Literal(<<>>)
        /\ (\E opener \in GroupOpeners : text = opener \o <<")">>) =>
               parsed.node.body = Literal(<<>>)

\* an alternation whose branches are one term and an empty group: the term
\* comes unwrapped and the body of the group is the empty Literal
C19_Witness ==
    /\ text = <<"a", "|", "(", ")">>
    /\ parsed.st = "Ok"
    /\ parsed.node =
           Alternation(<<Literal(<<"a">>),
                         Group(TRUE, None, Some(FALSE), Literal(<<>>))>>)

(***************************************************************************)
(* The emitter (SpecEmit)                                                  *)
(***************************************************************************)
\* the bound token the claim names for (min, max)
ShortestToken(min, max) ==
    IF max = IRInfinite
    THEN CASE min = 0 -> "*"
           [] min = 1 -> "+"
           [] OTHER -> "{" \o ToString(min) \o ",}"
    ELSE IF min = 0 /\ max.n = 1 THEN "?"
    ELSE IF min = max.n THEN "{" \o ToString(min) \o "}"
    ELSE "{" \o ToString(min) \o "," \o ToString(max.n) \o "}"

\* the text the claim gives a Quant: child, bound token, mode suffix
QuantText(q) ==
    emit(q.child) \o ShortestToken(q.min, q.max)
    \o (IF q.mode = "Lazy" THEN "?" ELSE IF q.mode = "Possessive" THEN "+" ELSE "")

\* C20: the emitter renders a Quant as its child followed by the shortest
\* bound token ("*", "+", "?", "{min,}", "{min}" or "{min,max}") and then "?"
\* for Lazy, "+" for Possessive, nothing for Greedy; also for a Quant inside
\* a sequence.
C20_QuantRendering ==
    emitted # None =>
        /\ node.ir = "Quant" => emitted[1] = QuantText(node)
        /\ node.ir = "Seq" => emitted[1] = QuantText(node.parts[1]) \o emit(node.parts[2])

\* a lazy optional group: (a\*)??
C20_Witness ==
    /\ node = IRQuant(IRGroup(TRUE, None, FALSE, IRLit(<<"a", "*">>)), 0, IRFinite(1), "Lazy")
    /\ emitted = Some("(a\\*)??")

\* the text the claim gives a literal class char
ClassCharText(ch) ==
    CASE ch \in {"]", "\\", "^", "-"} -> "\\" \o ch
      [] ch = "\n" -> "\\n"
      [] ch = "\r" -> "\\r"
      [] ch = "\t" -> "\\t"
      [] ch = "\f" -> "\\f"
      [] ch = VT -> "\\v"
      [] OTHER -> ch

RECURSIVE ClassText(_)
ClassText(items) ==
    IF items = <<>> THEN "" ELSE ClassCharText(Head(items).ch[1]) \o ClassText(Tail(items))

\* C22: in an emitted character class each of the literal chars ']', '\', '^'
\* and '-' is written after a backslash, each of newline, carriage return,
\* tab, form feed and vertical tab in its backslash-letter form, and every
\* other literal char verbatim.
C22_ClassEscaping ==
    (/\ emitted # None
     /\ node.ir = "CharClass"
     /\ \A k \in 1..Len(node.items) : node.items[k].ir = "Char")
        => emitted[1] = "[" \o (IF node.negated THEN "^" ELSE "") \o ClassText(node.items) \o "]"

(***************************************************************************)
(* The hint engine and the diagnostic code (SpecDiag)                      *)
(***************************************************************************)
\* the messages of ErrorMessages that are of one of the eight categories of
\* the hint engine
HintedMessages ==
    {"Unterminated group", "Unterminated group name", "Unterminated character class",
     "Empty character class", "Invalid flag 'z'", "Alternation lacks left-hand side",
     "Alternation lacks right-hand side", "Empty alternation branch",
     "Unexpected trailing input"}

\* C24: get_hint returns a hint exactly for the messages of the eight
\* categories and None for every other message, and what it returns does
\* not depend on the text and the pos it is given.
C24_HintIsLookup ==
    err # NoError =>
        /\ is_some(err.hint) <=> err.message \in HintedMessages
        /\ err.hint = get_hint(err.message, <<>>, 0)

\* the hint of the test of the engine, asked for in the middle of a text
C24_Witness ==
    /\ err # NoError
    /\ err.message = "Invalid flag 'z'"
    /\ err.text = <<"a", "\n", "b">>
    /\ err.pos = 2
    /\ is_some(err.hint)

\* the chars of a snake_case code
CodeAlphabet == "abcdefghijklmnopqrstuvwxyz0123456789_"

\* code is made of lowercase letters, digits and single underscores, none of
\* them at either end
IsSnakeCase(code) ==
    /\ \A k \in 1..Len(code) :
           \E a \in 1..Len(CodeAlphabet) : SubSeq(code, k, k) = SubSeq(CodeAlphabet, a, a)
    /\ code # "" => SubSeq(code, 1, 1) # "_" /\ SubSeq(code, Len(code), Len(code)) # "_"
    /\ \A k \in 1..(Len(code) - 1) : SubSeq(code, k, k + 1) # "__"

\* C25: for every message the parser raises, the code of the LSP diagnostic
\* is made only of lowercase letters, digits and single underscores, with no
\* punctuation and no underscore at either end, and it is the code of every
\* error with that message.
C25_CodeIsSnakeCase ==
    (lsp # None /\ err.message \in ParserMessages) =>
        /\ IsSnakeCase(lsp[1].code)
        /\ lsp[1].code = error_code(err.message)

(***************************************************************************)
(* The whole pipeline (SpecPipe)                                           *)
(***************************************************************************)
\* C21: for a pattern of plain literal chars, '.', '^', '$', '|', groups,
\* lookaheads, shorthand class escapes and the quantifiers '*', '+', '?',
\* the text emitted for the compiled AST of the pattern is the pattern.
\* the pattern is built of the constructs the claim lists: every literal of
\* its AST is a plain char, and a backslash is the one of "\w"
PlainChars == {"a", EAcute}
ListedPattern ==
    /\ \A k \in 1..Len(text) : text[k] = "\\" => (k < Len(text) /\ text[k + 1] = "w")
    /\ \A s \in ASTSubtrees(ast) :
          s.type = "Literal" => \A k \in 1..Len(s.value) : s.value[k] \in PlainChars

C21_RoundTrip == (is_some(emitted) /\ ListedPattern) => emitted[1] = StringOf(text)

NeedsGroup(c) == (c.ir = "Lit" /\ Len(c.value) > 1) \/ c.ir \in {"Seq", "Alt"}

\* the text of q with its child inside a group
GroupedQuantTexts(q) ==
    {open \o emit(q.child) \o ")" \o ShortestToken(q.min, q.max) \o mode_suffix(q.mode) :
        open \in {"(?:", "("}}

\* C26: when the child of a Quant compiles to a literal of several chars, a
\* Seq or an Alt, the emitted text has that child inside a group, so that
\* the quantifier token applies to the whole child.
C26_QuantChildGrouped ==
    (is_some(emitted) /\ ir.ir = "Quant" /\ NeedsGroup(ir.child))
        => emitted[1] \in GroupedQuantTexts(ir)

(***************************************************************************)
(* Free-spacing mode (SpecSpacing)                                         *)
(***************************************************************************)
\* the index of the first c in src at or after k, Len(src) + 1 if there is none
RECURSIVE IndexFrom(_, _, _)
IndexFrom(src, k, c) ==
    IF k > Len(src) \/ src[k] = c THEN k ELSE IndexFrom(src, k + 1, c)

\* the nodes the claim gives the chars of src from k on: a class for
\* "[...]" with an item for each char between the brackets, nothing for
\* whitespace and for a comment in free-spacing mode, a literal otherwise
RECURSIVE SpacedParts(_, _, _)
SpacedParts(src, k, extended) ==
    IF k > Len(src) THEN <<>>
    ELSE IF src[k] = "["
    THEN LET close == IndexFrom(src, k + 1, "]")
         IN  <<CharacterClass(FALSE, [j \in 1..(close - k - 1) |-> ClassChar(<<src[k + j]>>)])>>
             \o SpacedParts(src, close + 1, extended)
    ELSE IF extended /\ src[k] \in {" ", "\n"} THEN SpacedParts(src, k + 1, extended)
    ELSE IF extended /\ src[k] = "#"
    THEN SpacedParts(src, IndexFrom(src, k, "\n"), extended)
    ELSE <<Literal(<<src[k]>>)>> \o SpacedParts(src, k + 1, extended)

SpacedNode(src, extended) ==
    LET parts == SpacedParts(src, 1, extended)
    IN  IF parts = <<>> THEN Literal(<<>>)
        ELSE IF Len(parts) = 1 THEN parts[1]
        ELSE Sequence(parts)

\* C27: with the x flag whitespace and comments outside a class give no
\* node and every char inside "[...]" is a class item; without the x flag
\* whitespace and '#' of the pattern body are literals; after a parse that
\* succeeded the class depth of the cursor is 0.
C27_SpacingOutsideClasses ==
    parsed.st = "Ok" =>
        /\ parsed.node = SpacedNode(parsed.p.src, parsed.p.flags.extended)
        /\ parsed.p.cur.extended_mode = parsed.p.flags.extended
        /\ parsed.p.cur.in_class = 0

\* free-spacing mode: a space before a class that holds a space and a '#'
C27_Witness ==
    /\ parsed.st = "Ok"
    /\ parsed.p.flags.extended
    /\ parsed.p.src = <<" ", "[", " ", "#", "]">>
    /\ parsed.node = CharacterClass(FALSE, <<ClassChar(<<" ">>), ClassChar(<<"#">>)>>)

(***************************************************************************)
(* Termination of the parser's loops (SpecLoops)                           *)
(***************************************************************************)
\* C28: at the head of a loop of the parser (alternation, sequence,
\* character class, group name, whitespace and comment skipping) the cursor
\* is within the text, and the turn the loop takes next leaves the loop or
\* moves the cursor forward: no loop takes more turns than the text has
\* bytes, so parse returns.
C28_LoopsTerminate ==
    parsed.st = "Loop" =>
        /\ parsed.p.cur.i <= ByteLen(parsed.p.src)
        /\ \/ LoopTurnOf(parsed).st = "Left"
           \/ LoopTurnOf(parsed).p.cur.i > parsed.p.cur.i

\* free-spacing mode: the sequence loop is left after the turn that parsed
\* "a" and skipped the comment after it
C28_Witness ==
    /\ parsed.st = "Left"
    /\ parsed.loop = "seq"
    /\ parsed.p.cur.extended_mode
    /\ parsed.p.src = <<"a", " ", "#">>
    /\ parsed.p.cur.i = 3
    /\ parsed.acc = <<Literal(<<"a">>)>>

(***************************************************************************)
(* Normalization and the emitted text (SpecNormEmit)                       *)
(***************************************************************************)
\* C29: the text emitted for normalize(x) is the text emitted for x, for
\* every IR tree x.
C29_NormalizeKeepsText ==
    (emitted # None /\ emitted_norm # None) => emitted_norm = emitted

\* a sequence of a literal and a sequence of one literal comes to one literal
C29_Witness ==
    /\ node = IRSeq(<<IRLit(<<"a">>), IRSeq(<<IRLit(<<"a">>)>>)>>)
    /\ norm1 = IRLit(<<"a", "a">>)
    /\ emitted = Some("aa")
    /\ emitted_norm = Some("aa")

(***************************************************************************)
(* Literals through the emitter and back (SpecLit)                         *)
(***************************************************************************)
\* C30: parse accepts the text emitted for Lit{s}, and compiling the AST
\* it returns gives Lit{s} again, for every string s.
C30_LiteralRoundTrip ==
    parsed # NotParsed =>
        /\ parsed.st = "Ok"
        /\ call # "new" => ir = node

====
